---- MODULE Spec2Model ----
(***************************************************************************)
(* Control core of the kettle-filling pump firmware: the finite-state      *)
(* controller (StateMachine and its four State classes), the actuator bank *)
(* (PumpController: pump relay, kettle-power relay with cooldown, servo    *)
(* sequencer), the weight sensor (Scale: median filter, presence and       *)
(* stability checks), the button (Button: debounce with hysteresis, click  *)
(* and long-press classification), the display wait timer, and the order   *)
(* in which loop() runs them.                                              *)
(*                                                                         *)
(* Weights are whole grams, times are milliseconds of millis().  One pass  *)
(* of loop() is the sequence of actions                                    *)
(*   LoopBegin, MqttCommand or MqttNone, ButtonTick, LoopLongPress,        *)
(*   PumpUpdate, SMUpdate, SMHandleButton, UpdateDisplayWaiting            *)
(* selected by pc; OtaStart and ApiRequest are calls made between two      *)
(* passes.  Objects are records; each method is an operator from the       *)
(* world before the call to the world after it.                            *)
(*                                                                         *)
(* The buzzer is represented by the sequences requested of it, not by its  *)
(* sequencer (it feeds nothing back into the relays, the servo or the      *)
(* controller).  Not represented: the OLED drawing calls, WiFi, MQTT       *)
(* publication, and the fields stateEnterTime / ErrorState::lastBeepTime,  *)
(* which are written and never read by the control logic.                  *)
(***************************************************************************)
EXTENDS Integers, Sequences, FiniteSets, TLC

\* ------------------------------------------------------------------------
\* Program constants
\* ------------------------------------------------------------------------
CUP_VOLUME == 250
WEIGHT_HYST == 20
MIN_WATER_LEVEL == 500
FULL_WATER_LEVEL == 1700
DEBOUNCE_TIME == 50
LONG_PRESS_TIME == 3000
VERY_LONG_PRESS_TIME == 10000
DOUBLE_CLICK_TIME == 400
PUMP_TIMEOUT == 120000
NO_FLOW_TIMEOUT == 5000
POWER_RELAY_COOLDOWN == 2000
SERVO_MOVE_TIME == 1000
LOOP_DELAY == 100
RESET_CALIB_TIME == 10000
HYSTERESIS_COUNT == 3
STABLE_READINGS == 5
STABLE_WEIGHT_THRESHOLD == 5
STABLE_TIME_THRESHOLD == 2000
MAX_WEIGHT_JUMP == 500
POWER_CHECK_PERIOD == 1000
NO_FLOW_DELTA == 10
MQTT_MARGIN == 10
CALIB_MIN == 100
CALIB_MAX == 5000
WAIT_DURATION == 2000
CMD_ONE_CUP == 1
CMD_TWO_CUPS == 2
CMD_THREE_CUPS == 3
CMD_FOUR_CUPS == 4
CMD_FIVE_CUPS == 5
CMD_SIX_CUPS == 6
CMD_FULL == 7
CMD_STOP == 8

\* ------------------------------------------------------------------------
\* Bounds of the model
\* ------------------------------------------------------------------------
MaxTime == 6300          \* loop() passes start only while millis() <= MaxTime
SlowLoop == 7            \* a pass of loop() lasts SlowLoop * LOOP_DELAY
MaxEvents == 3           \* commands, direct requests, sensor dropouts, load
                         \* changes and button level changes in one run
HandleLag == 300         \* millis() may advance by this much between the
                         \* isLongPress() of loop() and handleButton()

PassTime == SlowLoop * LOOP_DELAY
RawWeights == {0, 300, 800}
EmptyWeights == {300}
Modes == 0 .. 9
ApiTargets == {800}

\* ------------------------------------------------------------------------
\* unsigned long arithmetic of millis()
\* ------------------------------------------------------------------------
\* The tick counter is an unsigned integer that wraps.  TLC's integers are
\* 32 bits wide and signed, so the counter is kept at 30 bits: the same
\* modular subtraction and the same signed cast, and every duration of the
\* program is far below half the range.
TickRange == 1024 * 1024 * 1024
TickHalf == TickRange \div 2

\* a - b on unsigned long
Sub(a, b) == (a - b) % TickRange

\* the cast (long)x of an unsigned long
Long(x) == IF x >= TickHalf THEN x - TickRange ELSE x

Abs(x) == IF x < 0 THEN -x ELSE x

\* ------------------------------------------------------------------------
\* PumpController: relays and servo
\* ------------------------------------------------------------------------
PumpController_new ==
    [pumpRelayState |-> FALSE, powerRelayState |-> FALSE,
     lastPowerRelayToggleTime |-> 0,
     currentServoState |-> "SERVO_IDLE", targetServoState |-> "SERVO_IDLE",
     servoMoveStartTime |-> 0]

pumpOn(p) == [p EXCEPT !.pumpRelayState = TRUE]

\* a pump relay that is never released
pumpOff_stuck(p) == p

pumpOff(p) == [p EXCEPT !.pumpRelayState = FALSE]

isPumpOn(p) == p.pumpRelayState

\* a power relay without the cooldown
canTogglePowerRelay_always(p, t) == TRUE

canTogglePowerRelay(p, t) ==
    Sub(t, p.lastPowerRelayToggleTime) >= POWER_RELAY_COOLDOWN

powerOn(p, t) ==
    IF canTogglePowerRelay(p, t)
    THEN [p EXCEPT !.powerRelayState = TRUE, !.lastPowerRelayToggleTime = t]
    ELSE p

powerOff(p, t) ==
    IF canTogglePowerRelay(p, t)
    THEN [p EXCEPT !.powerRelayState = FALSE, !.lastPowerRelayToggleTime = t]
    ELSE p

setPowerRelay(p, state, t) ==
    IF state /\ ~p.powerRelayState THEN powerOn(p, t)
    ELSE IF ~state /\ p.powerRelayState THEN powerOff(p, t)
    ELSE p

moveServoToKettle(p, t) ==
    IF p.currentServoState = "SERVO_MOVING" THEN p
    ELSE [p EXCEPT !.targetServoState = "SERVO_OVER_KETTLE",
                   !.currentServoState = "SERVO_MOVING",
                   !.servoMoveStartTime = t]

\* moveServoToIdle() that starts a new move while the servo is moving
moveServoToIdle_restart(p, t) ==
    [p EXCEPT !.targetServoState = "SERVO_IDLE",
              !.currentServoState = "SERVO_MOVING",
              !.servoMoveStartTime = t]

moveServoToIdle(p, t) ==
    IF p.currentServoState = "SERVO_MOVING" THEN p
    ELSE [p EXCEPT !.targetServoState = "SERVO_IDLE",
                   !.currentServoState = "SERVO_MOVING",
                   !.servoMoveStartTime = t]

isServoInPosition(p) == p.currentServoState # "SERVO_MOVING"

getServoState(p) == p.currentServoState

emergencyStop(p, t) == moveServoToIdle(pumpOff(p), t)

\* PumpController::begin(): both relays off, servo sent to its idle position
PumpController_begin(p, t) == moveServoToIdle(p, t)

\* PumpController::update(): the servo reaches its target after the travel time
PumpController_update(p, t) ==
    IF p.currentServoState = "SERVO_MOVING"
       /\ Sub(t, p.servoMoveStartTime) >= SERVO_MOVE_TIME
    THEN [p EXCEPT !.currentServoState = p.targetServoState]
    ELSE p

\* ------------------------------------------------------------------------
\* PumpController: the buzzer sequencer
\* ------------------------------------------------------------------------
BUZZER_FEEDBACK == 100
ERROR_LOOP_PERIOD == 5000

\* the buzzer members as PumpController() leaves them
Buzzer_new ==
    [buzzerState |-> "BUZZER_IDLE", buzzerCurrentCount |-> 0,
     buzzerTargetCount |-> 0, buzzerStepStartTime |-> 0,
     buzzerOutputHigh |-> FALSE, lastErrorLoopBeepTime |-> 0]

\* updateBuzzer() that ends a sequence one pulse early
updateBuzzer_onePulseLess(z, t) ==
    CASE z.buzzerState = "BUZZER_IDLE" -> z
      [] z.buzzerState \in {"BUZZER_SHORT_SEQUENCE", "BUZZER_LONG_SEQUENCE"} ->
            LET signalDuration ==
                    IF z.buzzerState = "BUZZER_LONG_SEQUENCE"
                    THEN BUZZER_FEEDBACK * 3 ELSE BUZZER_FEEDBACK
            IN IF z.buzzerOutputHigh
               THEN IF Long(Sub(t, z.buzzerStepStartTime)) >= signalDuration
                    THEN [z EXCEPT !.buzzerOutputHigh = FALSE,
                                   !.buzzerStepStartTime = t,
                                   !.buzzerCurrentCount = @ + 1]
                    ELSE z
               ELSE IF z.buzzerCurrentCount + 1 >= z.buzzerTargetCount
                    THEN [z EXCEPT !.buzzerState = "BUZZER_IDLE"]
                    ELSE IF Sub(t, z.buzzerStepStartTime)
                                >= BUZZER_FEEDBACK * 2
                         THEN [z EXCEPT !.buzzerOutputHigh = TRUE,
                                        !.buzzerStepStartTime = t]
                         ELSE z
      [] z.buzzerState = "BUZZER_ERROR_LOOP" ->
            IF Long(Sub(t, z.lastErrorLoopBeepTime)) > ERROR_LOOP_PERIOD
            THEN [z EXCEPT !.lastErrorLoopBeepTime = t,
                           !.buzzerState = "BUZZER_LONG_SEQUENCE",
                           !.buzzerTargetCount = 3,
                           !.buzzerCurrentCount = 0,
                           !.buzzerStepStartTime = t,
                           !.buzzerOutputHigh = TRUE]
            ELSE z

\* PumpController::updateBuzzer() at millis() = t
updateBuzzer(z, t) ==
    CASE z.buzzerState = "BUZZER_IDLE" -> z
      [] z.buzzerState \in {"BUZZER_SHORT_SEQUENCE", "BUZZER_LONG_SEQUENCE"} ->
            LET signalDuration ==
                    IF z.buzzerState = "BUZZER_LONG_SEQUENCE"
                    THEN BUZZER_FEEDBACK * 3 ELSE BUZZER_FEEDBACK
            IN IF z.buzzerOutputHigh
               THEN IF Long(Sub(t, z.buzzerStepStartTime)) >= signalDuration
                    THEN [z EXCEPT !.buzzerOutputHigh = FALSE,
                                   !.buzzerStepStartTime = t,
                                   !.buzzerCurrentCount = @ + 1]
                    ELSE z
               ELSE IF z.buzzerCurrentCount >= z.buzzerTargetCount
                    THEN [z EXCEPT !.buzzerState = "BUZZER_IDLE"]
                    ELSE IF Sub(t, z.buzzerStepStartTime)
                                >= BUZZER_FEEDBACK * 2
                         THEN [z EXCEPT !.buzzerOutputHigh = TRUE,
                                        !.buzzerStepStartTime = t]
                         ELSE z
      [] z.buzzerState = "BUZZER_ERROR_LOOP" ->
            IF Long(Sub(t, z.lastErrorLoopBeepTime)) > ERROR_LOOP_PERIOD
            THEN [z EXCEPT !.lastErrorLoopBeepTime = t,
                           !.buzzerState = "BUZZER_LONG_SEQUENCE",
                           !.buzzerTargetCount = 3,
                           !.buzzerCurrentCount = 0,
                           !.buzzerStepStartTime = t,
                           !.buzzerOutputHigh = TRUE]
            ELSE z

\* PumpController::beepShortNonBlocking(count) and beepLongNonBlocking(count)
Buzzer_start(z, sequence, count, t) ==
    [z EXCEPT !.buzzerState = sequence,
              !.buzzerTargetCount = count,
              !.buzzerCurrentCount = 0,
              !.buzzerStepStartTime = t,
              !.buzzerOutputHigh = TRUE]

\* PumpController::errorBeepLoopNonBlocking()
Buzzer_errorLoop(z, t) ==
    IF z.buzzerState # "BUZZER_ERROR_LOOP"
    THEN [z EXCEPT !.buzzerState = "BUZZER_ERROR_LOOP",
                   !.lastErrorLoopBeepTime = t]
    ELSE z

\* ------------------------------------------------------------------------
\* Scale: median filter, presence, stability
\* ------------------------------------------------------------------------
Scale_new ==
    [emptyWeight |-> 0, currentWeight |-> 0,
     readings |-> [i \in 1 .. STABLE_READINGS |-> 0], readIndex |-> 0,
     lastReadWeight |-> 0, lastStableReadTime |-> 0,
     isCalibrated |-> FALSE, factorCalibrated |-> FALSE]

\* Scale::loadCalibrationFromEEPROM on a store whose validity byte is flag,
\* whose factor-validity byte is factorFlag and whose empty weight is ew
loadCalibrationFromEEPROM(s, flag, factorFlag, ew) ==
    IF flag
    THEN [s EXCEPT !.emptyWeight = ew, !.factorCalibrated = factorFlag,
                   !.isCalibrated = TRUE]
    ELSE [s EXCEPT !.emptyWeight = 0, !.factorCalibrated = FALSE,
                   !.isCalibrated = FALSE]

\* the insertion sort of Scale::update, one element at a time
RECURSIVE InsertSorted(_, _)
InsertSorted(sorted, key) ==
    IF sorted = << >> THEN << key >>
    ELSE IF sorted[Len(sorted)] > key
         THEN Append(InsertSorted(SubSeq(sorted, 1, Len(sorted) - 1), key),
                     sorted[Len(sorted)])
         ELSE Append(sorted, key)

RECURSIVE SortPrefix(_, _)
SortPrefix(arr, n) ==
    IF n = 0 THEN << >> ELSE InsertSorted(SortPrefix(arr, n - 1), arr[n])

\* the mean of the buffer in place of its median
Mean(arr) ==
    (arr[1] + arr[2] + arr[3] + arr[4] + arr[5]) \div STABLE_READINGS

Median(arr) == SortPrefix(arr, STABLE_READINGS)[(STABLE_READINGS \div 2) + 1]

\* the value returned by Scale::update
Scale_updateOk(avail) == avail

\* Scale::update without the rejection of jumps
Scale_update_noJumpFilter(s, avail, raw) ==
    IF ~avail THEN [s EXCEPT !.currentWeight = 0]
    ELSE LET newRaw == IF raw < 0 THEN 0 ELSE raw
             rd == [s.readings EXCEPT ![s.readIndex + 1] = newRaw]
         IN [s EXCEPT !.readings = rd,
                      !.readIndex = (s.readIndex + 1) % STABLE_READINGS,
                      !.currentWeight = Median(rd)]

\* the sensor after Scale::update has read the converted sample raw
Scale_update(s, avail, raw) ==
    IF ~avail THEN [s EXCEPT !.currentWeight = 0]
    ELSE LET newRaw == IF raw < 0 THEN 0 ELSE raw IN
         IF s.currentWeight > 0
            /\ Abs(newRaw - s.currentWeight) > MAX_WEIGHT_JUMP
         THEN s
         ELSE LET rd == [s.readings EXCEPT ![s.readIndex + 1] = newRaw] IN
              [s EXCEPT !.readings = rd,
                        !.readIndex = (s.readIndex + 1) % STABLE_READINGS,
                        !.currentWeight = Median(rd)]

isReady(s, avail) == s.factorCalibrated /\ avail

isKettlePresent(s) == s.currentWeight >= s.emptyWeight - WEIGHT_HYST

\* the value returned by Scale::isWeightStable
isWeightStable(s, t) ==
    /\ Abs(s.currentWeight - s.lastReadWeight) < STABLE_WEIGHT_THRESHOLD
    /\ Sub(t, s.lastStableReadTime) > STABLE_TIME_THRESHOLD

\* the sensor after Scale::isWeightStable
Scale_afterStable(s, t) ==
    IF Abs(s.currentWeight - s.lastReadWeight) < STABLE_WEIGHT_THRESHOLD
    THEN s
    ELSE [s EXCEPT !.lastStableReadTime = t,
                   !.lastReadWeight = s.currentWeight]

calibrateEmpty(s, weight) ==
    [s EXCEPT !.emptyWeight = weight, !.isCalibrated = TRUE]

\* the persistent record written by Scale::saveCalibrationToEEPROM
saveCalibrationToEEPROM(s) ==
    [flag |-> TRUE, emptyWeight |-> s.emptyWeight,
     factorFlag |-> s.factorCalibrated]

\* ------------------------------------------------------------------------
\* Button: debounce with hysteresis, clicks, long press
\* ------------------------------------------------------------------------
\* lastRawLow / lastStableLow are TRUE when the level is LOW (pressed)
Button_new ==
    [lastRawLow |-> FALSE, lastDebounceTime |-> 0,
     lastStableLow |-> FALSE, stableConfirmCount |-> 0,
     pressStartTime |-> 0, clickCount |-> 0, lastClickTime |-> 0,
     isLongPressReported |-> FALSE, isVeryLongPressReported |-> FALSE,
     holdActive |-> FALSE]

\* a confirmed press at time t
Button_pressed(b, t) ==
    IF b.pressStartTime = 0
    THEN [b EXCEPT !.pressStartTime = t, !.isLongPressReported = FALSE,
                   !.isVeryLongPressReported = FALSE, !.holdActive = TRUE]
    ELSE b

\* Button_released without the lower bound on the press duration
Button_released_noMinimum(b, t) ==
    IF b.pressStartTime # 0
    THEN LET pressDuration == Sub(t, b.pressStartTime)
             c == IF pressDuration < LONG_PRESS_TIME
                  THEN [b EXCEPT !.clickCount = @ + 1, !.lastClickTime = t]
                  ELSE b
         IN [c EXCEPT !.pressStartTime = 0, !.holdActive = FALSE]
    ELSE b

\* a confirmed release at time t
Button_released(b, t) ==
    IF b.pressStartTime # 0
    THEN LET pressDuration == Sub(t, b.pressStartTime)
             c == IF pressDuration > DEBOUNCE_TIME * 2
                     /\ pressDuration < LONG_PRESS_TIME
                  THEN [b EXCEPT !.clickCount = @ + 1, !.lastClickTime = t]
                  ELSE b
         IN [c EXCEPT !.pressStartTime = 0, !.holdActive = FALSE]
    ELSE b

\* Button::tick() counting confirmations without the debounce window
Button_tick_noWindow(b, rawLow, t) ==
    LET b1 == IF rawLow # b.lastRawLow
              THEN [b EXCEPT !.lastDebounceTime = t, !.lastRawLow = rawLow,
                             !.stableConfirmCount = 0]
              ELSE b
        c == IF b1.stableConfirmCount < HYSTERESIS_COUNT
             THEN [b1 EXCEPT !.stableConfirmCount = @ + 1]
             ELSE b1
        b2 == IF c.stableConfirmCount >= HYSTERESIS_COUNT
                 /\ rawLow # c.lastStableLow
              THEN LET d == [c EXCEPT !.lastStableLow = rawLow]
                   IN IF rawLow THEN Button_pressed(d, t)
                      ELSE Button_released(d, t)
              ELSE c
    IN IF b2.clickCount > 0 /\ Sub(t, b2.lastClickTime) > DOUBLE_CLICK_TIME
       THEN [b2 EXCEPT !.clickCount = 0]
       ELSE b2

\* Button::tick() reading the raw level rawLow at time t
Button_tick(b, rawLow, t) ==
    LET b1 == IF rawLow # b.lastRawLow
              THEN [b EXCEPT !.lastDebounceTime = t, !.lastRawLow = rawLow,
                             !.stableConfirmCount = 0]
              ELSE b
        b2 == IF Sub(t, b1.lastDebounceTime) > DEBOUNCE_TIME
              THEN LET c == IF b1.stableConfirmCount < HYSTERESIS_COUNT
                            THEN [b1 EXCEPT !.stableConfirmCount = @ + 1]
                            ELSE b1
                   IN IF c.stableConfirmCount >= HYSTERESIS_COUNT
                         /\ rawLow # c.lastStableLow
                      THEN LET d == [c EXCEPT !.lastStableLow = rawLow]
                           IN IF rawLow THEN Button_pressed(d, t)
                              ELSE Button_released(d, t)
                      ELSE c
              ELSE b1
    IN IF b2.clickCount > 0 /\ Sub(t, b2.lastClickTime) > DOUBLE_CLICK_TIME
       THEN [b2 EXCEPT !.clickCount = 0]
       ELSE b2

isPressed(b) == b.lastStableLow

\* Button::isLongPress without the reported flag
isLongPress_everyPoll(b, t) ==
    /\ b.pressStartTime > 0
    /\ b.lastStableLow
    /\ Sub(t, b.pressStartTime) >= LONG_PRESS_TIME
    /\ Sub(t, b.pressStartTime) < VERY_LONG_PRESS_TIME

\* the value returned by Button::isLongPress
isLongPress(b, t) ==
    /\ b.pressStartTime > 0
    /\ ~b.isLongPressReported
    /\ b.lastStableLow
    /\ Sub(t, b.pressStartTime) >= LONG_PRESS_TIME
    /\ Sub(t, b.pressStartTime) < VERY_LONG_PRESS_TIME

\* the button after Button::isLongPress: a reported long press is consumed
Button_afterLongPress(b, t) ==
    IF isLongPress(b, t) THEN [b EXCEPT !.isLongPressReported = TRUE] ELSE b

\* the value returned by Button::isVeryLongPress
isVeryLongPress(b, t) ==
    /\ b.pressStartTime > 0
    /\ ~b.isVeryLongPressReported
    /\ b.lastStableLow
    /\ Sub(t, b.pressStartTime) >= VERY_LONG_PRESS_TIME

\* the button after Button::isVeryLongPress
Button_afterVeryLongPress(b, t) ==
    IF isVeryLongPress(b, t)
    THEN [b EXCEPT !.isVeryLongPressReported = TRUE,
                   !.isLongPressReported = TRUE]
    ELSE b

isSingleClick(b) == b.clickCount = 1

isDoubleClick(b) == b.clickCount = 2

isTripleClick(b) == b.clickCount = 3

resetClicks(b) == IF b.clickCount > 0 THEN [b EXCEPT !.clickCount = 0] ELSE b

\* ------------------------------------------------------------------------
\* State objects
\* ------------------------------------------------------------------------
StateNames == {"IDLE", "FILLING", "CALIBRATION", "ERROR"}

BlankState ==
    [name |-> "NULL", targetWeight |-> 0, startWeight |-> 0, startTime |-> 0,
     fillingInit |-> FALSE, emergencyStopFlag |-> FALSE,
     step |-> "CALIB_WAIT_REMOVE", pressedHandled |-> FALSE,
     lastPowerCheckTime |-> 0, error |-> "ERR_NONE"]

\* nullptr
NullState == BlankState

IdleState_new == [BlankState EXCEPT !.name = "IDLE"]

FillingState_new(target) ==
    [BlankState EXCEPT !.name = "FILLING", !.targetWeight = target]

CalibrationState_new == [BlankState EXCEPT !.name = "CALIBRATION"]

ErrorState_new(err) == [BlankState EXCEPT !.name = "ERROR", !.error = err]

\* ------------------------------------------------------------------------
\* Buzzer requests
\* ------------------------------------------------------------------------
\* The buzzer sequencer is not represented; w.beeps records the sequences
\* requested during the current action.
beepShortNonBlocking(w, count) ==
    [w EXCEPT !.beeps = Append(@, << "short", count >>)]

beepLongNonBlocking(w, count) ==
    [w EXCEPT !.beeps = Append(@, << "long", count >>)]

errorBeepLoopNonBlocking(w) ==
    [w EXCEPT !.beeps = Append(@, << "errorLoop", 0 >>)]

\* ------------------------------------------------------------------------
\* StateMachine: transition requests
\* ------------------------------------------------------------------------
\* the earlier revision of canTransitionTo: every transition is allowed
canTransitionTo_any(currentState, newState) == TRUE

canTransitionTo(currentState, newState) ==
    IF currentState = NullState THEN TRUE
    ELSE IF currentState.name = "IDLE" THEN TRUE
    ELSE IF currentState.name = "FILLING"
         THEN newState.name = "IDLE" \/ newState.name = "ERROR"
    ELSE IF currentState.name = "CALIBRATION"
         THEN newState.name = "IDLE" \/ newState.name = "ERROR"
    ELSE IF currentState.name = "ERROR" THEN newState.name = "ERROR"
    ELSE FALSE

\* transitionTo without the canTransitionTo guard
transitionTo_unchecked(w, newState) ==
    [w EXCEPT !.reqs = Append(@, [from |-> w.sm.currentState.name,
                                  to |-> newState.name,
                                  granted |-> canTransitionTo(w.sm.currentState,
                                                              newState)]),
              !.sm.nextState = newState,
              !.sm.stateTransitionPending = TRUE]

\* w.reqs records every request made during the current action
transitionTo(w, newState) ==
    LET ok == canTransitionTo(w.sm.currentState, newState)
        w1 == [w EXCEPT !.reqs = Append(@, [from |-> w.sm.currentState.name,
                                            to |-> newState.name,
                                            granted |-> ok])]
    IN IF ~ok THEN w1
       ELSE [w1 EXCEPT !.sm.nextState = newState,
                       !.sm.stateTransitionPending = TRUE]

toIdle(w) == transitionTo(w, IdleState_new)

toFilling(w, targetWeight) ==
    transitionTo([w EXCEPT !.sm.fillTarget = targetWeight],
                 FillingState_new(targetWeight))

toCalibration(w) == transitionTo(w, CalibrationState_new)

toError(w, error) ==
    transitionTo([w EXCEPT !.sm.currentError = error], ErrorState_new(error))

\* checkScaleError: TRUE when the sensor is ready
checkScaleError(w, avail) == isReady(w.scale, avail)

\* ------------------------------------------------------------------------
\* IdleState
\* ------------------------------------------------------------------------
IdleState_enter(w) ==
    [w EXCEPT !.pump = pumpOff(@), !.sm.currentState.pressedHandled = FALSE]

IdleState_exit(w) == w

\* the kettle-power decision without the band below MIN_WATER_LEVEL
IdleState_powerCheck_noBand(w) ==
    LET waterWeight == w.scale.currentWeight - w.scale.emptyWeight
        w1 == [w EXCEPT !.sm.currentState.lastPowerCheckTime = w.now]
    IN IF isKettlePresent(w.scale)
       THEN IF waterWeight >= MIN_WATER_LEVEL /\ ~isPumpOn(w.pump)
            THEN [w1 EXCEPT !.pump = setPowerRelay(@, TRUE, w.now)]
            ELSE [w1 EXCEPT !.pump = setPowerRelay(@, FALSE, w.now)]
       ELSE [w1 EXCEPT !.pump = setPowerRelay(@, FALSE, w.now)]

\* the kettle-power decision of IdleState::update
IdleState_powerCheck(w) ==
    LET waterWeight == w.scale.currentWeight - w.scale.emptyWeight
        w1 == [w EXCEPT !.sm.currentState.lastPowerCheckTime = w.now]
    IN IF isKettlePresent(w.scale)
       THEN IF waterWeight >= MIN_WATER_LEVEL /\ ~isPumpOn(w.pump)
            THEN [w1 EXCEPT !.pump = setPowerRelay(@, TRUE, w.now)]
            ELSE IF waterWeight < MIN_WATER_LEVEL - WEIGHT_HYST
                 THEN [w1 EXCEPT !.pump = setPowerRelay(@, FALSE, w.now)]
                 ELSE w1
       ELSE [w1 EXCEPT !.pump = setPowerRelay(@, FALSE, w.now)]

\* IdleState::update making the kettle-power decision before it looks at
\* the sensor
IdleState_update_powerFirst(w, a1, a2, raw) ==
    LET w0 == IF Long(Sub(w.now, w.sm.currentState.lastPowerCheckTime))
                     > POWER_CHECK_PERIOD
              THEN IdleState_powerCheck(w)
              ELSE w
    IN IF ~checkScaleError(w0, a1) THEN toError(w0, "ERR_HX711_TIMEOUT")
       ELSE LET w1 == [w0 EXCEPT !.scale = Scale_update(@, a2, raw)] IN
            IF ~Scale_updateOk(a2) THEN toError(w1, "ERR_HX711_TIMEOUT")
            ELSE w1

\* a1: HX711 available at isReady(), a2: at Scale::update(), raw: the sample
IdleState_update(w, a1, a2, raw) ==
    IF ~checkScaleError(w, a1) THEN toError(w, "ERR_HX711_TIMEOUT")
    ELSE LET w1 == [w EXCEPT !.scale = Scale_update(@, a2, raw)] IN
         IF ~Scale_updateOk(a2) THEN toError(w1, "ERR_HX711_TIMEOUT")
         ELSE IF Long(Sub(w1.now, w1.sm.currentState.lastPowerCheckTime))
                    > POWER_CHECK_PERIOD
              THEN IdleState_powerCheck(w1)
              ELSE w1

\* a single click that always adds one cup
SingleClickTarget_alwaysCup(s) ==
    LET targetWeight == s.currentWeight + CUP_VOLUME
        maxWeight == s.emptyWeight + FULL_WATER_LEVEL
    IN IF targetWeight > maxWeight THEN maxWeight ELSE targetWeight

\* the target of a single click: top up to the minimum, else add one cup
SingleClickTarget(s) ==
    LET currentWater == s.currentWeight - s.emptyWeight
        targetWeight == IF currentWater < MIN_WATER_LEVEL
                        THEN s.emptyWeight + MIN_WATER_LEVEL
                        ELSE s.currentWeight + CUP_VOLUME
        maxWeight == s.emptyWeight + FULL_WATER_LEVEL
    IN IF targetWeight > maxWeight THEN maxWeight ELSE targetWeight

IdleState_handleButton(w, avail) ==
    LET w0 == IF ~isPressed(w.button)
              THEN [w EXCEPT !.sm.currentState.pressedHandled = FALSE]
              ELSE w
        canFill == isReady(w0.scale, avail) /\ isKettlePresent(w0.scale)
    IN IF isSingleClick(w0.button)
       THEN LET w1 == IF canFill
                      THEN toFilling(w0, SingleClickTarget(w0.scale))
                      ELSE beepShortNonBlocking(w0, 2)
            IN [w1 EXCEPT !.button = resetClicks(@)]
       ELSE IF isDoubleClick(w0.button)
       THEN LET w1 == IF canFill
                      THEN toFilling(w0, w0.scale.emptyWeight + FULL_WATER_LEVEL)
                      ELSE beepShortNonBlocking(w0, 2)
            IN [w1 EXCEPT !.button = resetClicks(@)]
       ELSE IF isTripleClick(w0.button)
       THEN [toCalibration(w0) EXCEPT !.button = resetClicks(@)]
       ELSE w0

\* ------------------------------------------------------------------------
\* FillingState
\* ------------------------------------------------------------------------
\* FillingState::enter sending the servo to the kettle before it looks for
\* the kettle
FillingState_enter_servoFirst(w) ==
    IF ~isKettlePresent(w.scale)
    THEN toIdle(beepShortNonBlocking(
                    [w EXCEPT !.pump = moveServoToKettle(@, w.now)], 2))
    ELSE beepShortNonBlocking(
             [w EXCEPT !.sm.currentState.startTime = w.now,
                       !.sm.currentState.startWeight = w.scale.currentWeight,
                       !.sm.currentState.fillingInit = TRUE,
                       !.sm.currentState.emergencyStopFlag = FALSE,
                       !.pump = moveServoToKettle(@, w.now)], 1)

FillingState_enter(w) ==
    IF ~isKettlePresent(w.scale) THEN toIdle(beepShortNonBlocking(w, 2))
    ELSE beepShortNonBlocking(
             [w EXCEPT !.sm.currentState.startTime = w.now,
                       !.sm.currentState.startWeight = w.scale.currentWeight,
                       !.sm.currentState.fillingInit = TRUE,
                       !.sm.currentState.emergencyStopFlag = FALSE,
                       !.pump = moveServoToKettle(@, w.now)], 1)

FillingState_exit(w) ==
    LET p == pumpOff(w.pump)
    IN [w EXCEPT !.pump = IF getServoState(p) # "SERVO_IDLE"
                          THEN moveServoToIdle(p, w.now)
                          ELSE p]

\* FillingState::update with the hysteresis added to the target
FillingState_run_lateTarget(w) ==
    LET st == w.sm.currentState
        currentWeight == w.scale.currentWeight
        elapsed == Sub(w.now, st.startTime)
    IN IF Long(elapsed) > Long(PUMP_TIMEOUT)
       THEN toError(w, "ERR_FILL_TIMEOUT")
       ELSE LET checkFlow == Long(elapsed) > Long(NO_FLOW_TIMEOUT)
                w2 == IF checkFlow
                      THEN [w EXCEPT !.scale = Scale_afterStable(@, w.now)]
                      ELSE w
            IN IF checkFlow /\ isWeightStable(w.scale, w.now)
                  /\ Abs(currentWeight - st.startWeight) < NO_FLOW_DELTA
               THEN toError(w2, "ERR_NO_FLOW")
               ELSE LET w3 == IF isServoInPosition(w2.pump) /\ ~isPumpOn(w2.pump)
                              THEN [w2 EXCEPT !.pump = pumpOn(@)]
                              ELSE w2
                    IN IF currentWeight >= st.targetWeight + WEIGHT_HYST
                       THEN toIdle(beepShortNonBlocking(w3, 2))
                       ELSE w3

\* FillingState::update with the fill timeout compared as now > startTime +
\* PUMP_TIMEOUT, which misses a fill during which millis() wraps around
FillingState_run_plainCompare(w) ==
    LET st == w.sm.currentState
        currentWeight == w.scale.currentWeight
        elapsed == Sub(w.now, st.startTime)
    IN IF w.now > st.startTime + PUMP_TIMEOUT
       THEN toError(w, "ERR_FILL_TIMEOUT")
       ELSE LET checkFlow == Long(elapsed) > Long(NO_FLOW_TIMEOUT)
                w2 == IF checkFlow
                      THEN [w EXCEPT !.scale = Scale_afterStable(@, w.now)]
                      ELSE w
            IN IF checkFlow /\ isWeightStable(w.scale, w.now)
                  /\ Abs(currentWeight - st.startWeight) < NO_FLOW_DELTA
               THEN toError(w2, "ERR_NO_FLOW")
               ELSE LET w3 == IF isServoInPosition(w2.pump) /\ ~isPumpOn(w2.pump)
                              THEN [w2 EXCEPT !.pump = pumpOn(@)]
                              ELSE w2
                    IN IF currentWeight >= st.targetWeight - WEIGHT_HYST
                       THEN toIdle(beepShortNonBlocking(w3, 2))
                       ELSE w3

\* FillingState::update without the check of PUMP_TIMEOUT
FillingState_run_noTimeout(w) ==
    LET st == w.sm.currentState
        currentWeight == w.scale.currentWeight
        elapsed == Sub(w.now, st.startTime)
        checkFlow == Long(elapsed) > Long(NO_FLOW_TIMEOUT)
        w2 == IF checkFlow
              THEN [w EXCEPT !.scale = Scale_afterStable(@, w.now)]
              ELSE w
    IN IF checkFlow /\ isWeightStable(w.scale, w.now)
          /\ Abs(currentWeight - st.startWeight) < NO_FLOW_DELTA
       THEN toError(w2, "ERR_NO_FLOW")
       ELSE LET w3 == IF isServoInPosition(w2.pump) /\ ~isPumpOn(w2.pump)
                      THEN [w2 EXCEPT !.pump = pumpOn(@)]
                      ELSE w2
            IN IF currentWeight >= st.targetWeight - WEIGHT_HYST
               THEN toIdle(beepShortNonBlocking(w3, 2))
               ELSE w3

\* FillingState::update after the emergency-stop and kettle-lost checks
FillingState_run(w) ==
    LET st == w.sm.currentState
        currentWeight == w.scale.currentWeight
        elapsed == Sub(w.now, st.startTime)
    IN IF Long(elapsed) > Long(PUMP_TIMEOUT)
       THEN toError(w, "ERR_FILL_TIMEOUT")
       ELSE LET checkFlow == Long(elapsed) > Long(NO_FLOW_TIMEOUT)
                w2 == IF checkFlow
                      THEN [w EXCEPT !.scale = Scale_afterStable(@, w.now)]
                      ELSE w
            IN IF checkFlow /\ isWeightStable(w.scale, w.now)
                  /\ Abs(currentWeight - st.startWeight) < NO_FLOW_DELTA
               THEN toError(w2, "ERR_NO_FLOW")
               ELSE LET w3 == IF isServoInPosition(w2.pump) /\ ~isPumpOn(w2.pump)
                              THEN [w2 EXCEPT !.pump = pumpOn(@)]
                              ELSE w2
                    IN IF currentWeight >= st.targetWeight - WEIGHT_HYST
                       THEN toIdle(beepShortNonBlocking(w3, 2))
                       ELSE w3

FillingState_update(w, a1, a2, raw) ==
    IF ~checkScaleError(w, a1) THEN toError(w, "ERR_HX711_TIMEOUT")
    ELSE LET w1 == [w EXCEPT !.scale = Scale_update(@, a2, raw)] IN
         IF ~Scale_updateOk(a2) THEN toError(w1, "ERR_HX711_TIMEOUT")
         ELSE IF ~w1.sm.currentState.fillingInit THEN w1
         ELSE IF w1.sm.currentState.emergencyStopFlag THEN toIdle(w1)
         ELSE IF ~isKettlePresent(w1.scale)
              THEN toError(beepShortNonBlocking(w1, 2), "ERR_NO_FLOW")
         ELSE FillingState_run(w1)

FillingState_handleButton(w) ==
    IF isLongPress(w.button, w.now)
    THEN [beepShortNonBlocking(w, 3)
             EXCEPT !.button = resetClicks(Button_afterLongPress(@, w.now)),
                    !.sm.currentState.emergencyStopFlag = TRUE]
    ELSE w

\* ------------------------------------------------------------------------
\* CalibrationState
\* ------------------------------------------------------------------------
CalibrationState_enter(w) ==
    [w EXCEPT !.pump = setPowerRelay(pumpOff(@), FALSE, w.now),
              !.sm.currentState.step = "CALIB_WAIT_REMOVE",
              !.sm.currentState.pressedHandled = FALSE,
              !.display.calibrationInProgress = TRUE]

CalibrationState_exit(w) == [w EXCEPT !.display.calibrationInProgress = FALSE]

CalibrationState_update(w, a1, a2, raw) ==
    IF ~checkScaleError(w, a1) THEN toError(w, "ERR_HX711_TIMEOUT")
    ELSE [w EXCEPT !.scale = Scale_update(@, a2, raw)]

\* Display::showCalibrationSuccessNonBlocking / showCalibrationErrorNonBlocking
Display_startWait(d, kind, t) ==
    [d EXCEPT !.waitState = kind, !.waitStartTime = t,
              !.waitDuration = WAIT_DURATION]

\* step 2 of the calibration accepting whatever the filter holds
CalibrationState_place_anyWeight(w) ==
    LET emptyWeight == w.scale.currentWeight
        s == calibrateEmpty(w.scale, emptyWeight)
    IN [beepShortNonBlocking(w, 1) EXCEPT
                 !.scale = s,
                 !.eeprom = saveCalibrationToEEPROM(s),
                 !.display = Display_startWait(
                                [@ EXCEPT !.calibrationSuccess = TRUE],
                                "WAIT_CALIB_SUCCESS", w.now)]

\* step 2 of the calibration: the filtered weight is the candidate
CalibrationState_place(w) ==
    LET emptyWeight == w.scale.currentWeight
    IN IF emptyWeight > CALIB_MIN /\ emptyWeight < CALIB_MAX
       THEN LET s == calibrateEmpty(w.scale, emptyWeight)
            IN [beepShortNonBlocking(w, 1) EXCEPT
                         !.scale = s,
                         !.eeprom = saveCalibrationToEEPROM(s),
                         !.display = Display_startWait(
                                        [@ EXCEPT !.calibrationSuccess = TRUE],
                                        "WAIT_CALIB_SUCCESS", w.now)]
       ELSE [beepLongNonBlocking(w, 1) EXCEPT
                !.display = Display_startWait(@, "WAIT_CALIB_ERROR", w.now)]

CalibrationState_handleButton(w) ==
    LET w0 == IF ~isPressed(w.button)
              THEN [w EXCEPT !.sm.currentState.pressedHandled = FALSE]
              ELSE w
    IN IF isPressed(w0.button) /\ ~w0.sm.currentState.pressedHandled
       THEN LET w1 == [w0 EXCEPT !.sm.currentState.pressedHandled = TRUE]
                w2 == IF w1.sm.currentState.step = "CALIB_WAIT_REMOVE"
                      THEN [w1 EXCEPT !.sm.currentState.step = "CALIB_WAIT_PLACE"]
                      ELSE CalibrationState_place(w1)
            IN [w2 EXCEPT !.button = resetClicks(@)]
       ELSE w0

\* ------------------------------------------------------------------------
\* ErrorState
\* ------------------------------------------------------------------------
ErrorState_enter(w) ==
    [w EXCEPT !.pump = moveServoToIdle(
                           setPowerRelay(pumpOff(@), FALSE, w.now), w.now)]

ErrorState_exit(w) == w

ErrorState_update(w) == errorBeepLoopNonBlocking(w)

ErrorState_handleButton(w) == w

\* ------------------------------------------------------------------------
\* StateMachine: dispatch, update, remote commands
\* ------------------------------------------------------------------------
\* w.hooks records every enter/exit hook run during the current action
Hook(w, h) == [w EXCEPT !.hooks = Append(@, h)]

State_exit(w) ==
    LET n == w.sm.currentState.name
        w1 == Hook(w, << n, "exit" >>)
    IN CASE n = "IDLE" -> IdleState_exit(w1)
         [] n = "FILLING" -> FillingState_exit(w1)
         [] n = "CALIBRATION" -> CalibrationState_exit(w1)
         [] n = "ERROR" -> ErrorState_exit(w1)

State_enter(w) ==
    LET n == w.sm.currentState.name
        w1 == Hook(w, << n, "enter" >>)
    IN CASE n = "IDLE" -> IdleState_enter(w1)
         [] n = "FILLING" -> FillingState_enter(w1)
         [] n = "CALIBRATION" -> CalibrationState_enter(w1)
         [] n = "ERROR" -> ErrorState_enter(w1)

State_update(w, a1, a2, raw) ==
    LET n == w.sm.currentState.name
    IN CASE n = "IDLE" -> IdleState_update(w, a1, a2, raw)
         [] n = "FILLING" -> FillingState_update(w, a1, a2, raw)
         [] n = "CALIBRATION" -> CalibrationState_update(w, a1, a2, raw)
         [] n = "ERROR" -> ErrorState_update(w)

\* the pending transition of StateMachine::update: old.exit, swap, new.enter
StateMachine_swap(w) ==
    IF w.sm.stateTransitionPending /\ w.sm.nextState # NullState
    THEN LET w1 == IF w.sm.currentState # NullState THEN State_exit(w) ELSE w
             w2 == [w1 EXCEPT !.sm.currentState = w1.sm.nextState,
                              !.sm.nextState = NullState,
                              !.sm.stateTransitionPending = FALSE]
         IN State_enter(w2)
    ELSE w

StateMachine_update(w, a1, a2, raw) ==
    LET w1 == StateMachine_swap(w)
    IN IF w1.sm.currentState # NullState
       THEN State_update(w1, a1, a2, raw)
       ELSE w1

StateMachine_handleButton(w, avail) ==
    LET n == w.sm.currentState.name
    IN CASE n = "NULL" -> w
         [] n = "IDLE" -> IdleState_handleButton(w, avail)
         [] n = "FILLING" -> FillingState_handleButton(w)
         [] n = "CALIBRATION" -> CalibrationState_handleButton(w)
         [] n = "ERROR" -> ErrorState_handleButton(w)

\* emergencyStopFilling that only requests Idle
emergencyStopFilling_requestOnly(w) ==
    IF w.sm.currentState # NullState /\ w.sm.currentState.name = "FILLING"
    THEN toIdle(beepShortNonBlocking(w, 3))
    ELSE w

emergencyStopFilling(w) ==
    IF w.sm.currentState # NullState /\ w.sm.currentState.name = "FILLING"
    THEN toIdle(beepShortNonBlocking(
                    [w EXCEPT !.pump = emergencyStop(@, w.now)], 3))
    ELSE w

\* the target weight of remote command mode (1..7)
MqttTarget(s, mode) ==
    LET water == s.currentWeight - s.emptyWeight
        currentWater == IF water < 0 THEN 0 ELSE water
        maxWeight == s.emptyWeight + FULL_WATER_LEVEL
        targetWeight ==
            CASE mode = CMD_ONE_CUP ->
                     IF currentWater < MIN_WATER_LEVEL
                     THEN s.emptyWeight + MIN_WATER_LEVEL
                     ELSE s.currentWeight + CUP_VOLUME
              [] mode = CMD_TWO_CUPS -> s.emptyWeight + 500
              [] mode = CMD_THREE_CUPS -> s.emptyWeight + 750
              [] mode = CMD_FOUR_CUPS -> s.emptyWeight + 1000
              [] mode = CMD_FIVE_CUPS -> s.emptyWeight + 1250
              [] mode = CMD_SIX_CUPS -> s.emptyWeight + 1500
              [] mode = CMD_FULL -> s.emptyWeight + FULL_WATER_LEVEL
    IN IF targetWeight > maxWeight THEN maxWeight ELSE targetWeight

\* handleMqttCommand without the "only in Idle" test
handleMqttCommand_anyState(w, mode, avail) ==
    IF mode < 1 \/ mode > 8 THEN beepShortNonBlocking(w, 2)
    ELSE IF w.sm.currentState = NullState THEN w
    ELSE IF mode = CMD_STOP
         THEN IF w.sm.currentState.name = "FILLING"
              THEN emergencyStopFilling(w)
              ELSE beepShortNonBlocking(w, 2)
    ELSE IF ~isReady(w.scale, avail) \/ ~isKettlePresent(w.scale)
         THEN beepShortNonBlocking(w, 2)
    ELSE IF MqttTarget(w.scale, mode) <= w.scale.currentWeight + MQTT_MARGIN
         THEN beepShortNonBlocking(w, 2)
    ELSE beepShortNonBlocking(toFilling(w, MqttTarget(w.scale, mode)), 1)

handleMqttCommand(w, mode, avail) ==
    IF mode < 1 \/ mode > 8 THEN beepShortNonBlocking(w, 2)
    ELSE IF w.sm.currentState = NullState THEN w
    ELSE IF mode = CMD_STOP
         THEN IF w.sm.currentState.name = "FILLING"
              THEN emergencyStopFilling(w)
              ELSE beepShortNonBlocking(w, 2)
    ELSE IF w.sm.currentState.name # "IDLE" THEN beepShortNonBlocking(w, 2)
    ELSE IF ~isReady(w.scale, avail) \/ ~isKettlePresent(w.scale)
         THEN beepShortNonBlocking(w, 2)
    ELSE IF MqttTarget(w.scale, mode) <= w.scale.currentWeight + MQTT_MARGIN
         THEN beepShortNonBlocking(w, 2)
    ELSE beepShortNonBlocking(toFilling(w, MqttTarget(w.scale, mode)), 1)

\* Display::updateWaiting(sm) with sm # nullptr
Display_updateWaiting(w) ==
    IF w.display.waitState = "WAIT_NONE" THEN w
    ELSE IF Long(Sub(w.now, w.display.waitStartTime))
               >= Long(w.display.waitDuration)
         THEN LET w1 == IF w.display.waitState = "WAIT_CALIB_SUCCESS"
                        THEN toIdle([w EXCEPT !.display.calibrationSuccess = FALSE])
                        ELSE w
              IN [w1 EXCEPT !.display.waitState = "WAIT_NONE"]
         ELSE w

Display_new ==
    [waitState |-> "WAIT_NONE", waitStartTime |-> 0, waitDuration |-> 0,
     calibrationSuccess |-> FALSE, calibrationInProgress |-> FALSE]

\* ------------------------------------------------------------------------
\* State of the program
\* ------------------------------------------------------------------------
VARIABLES
    now,        \* millis() at the start of the current pass of loop()
    pc,         \* the step of loop() that runs next
    sm,         \* StateMachine: currentState, nextState, pending flag, ...
    pump,       \* PumpController
    scale,      \* Scale
    button,     \* Button
    display,    \* Display: wait timer and calibration flags
    eeprom,     \* the persisted calibration record
    load,       \* the converted sample the HX711 delivers when read
    events,     \* environment events still allowed (MaxEvents)
    reqs,       \* transition requests made by the last action
    hooks,      \* enter/exit hooks run by the last action
    beeps,      \* buzzer sequences requested by the last action
    hist        \* history: cmd, the command delivered by the last action;
                \* errorDue, a state's update() has requested Error;
                \* stopped, a stop was accepted and no fill requested since;
                \* flagTick, passes since the emergency-stop flag was latched;
                \* pumpWas, the pump relay was on before the last action

vars == << now, pc, sm, pump, scale, button, display, eeprom, load, events,
           reqs, hooks, beeps, hist >>

NoCmd == 0 - 1

\* the objects as one world, with empty request and hook logs
World ==
    [now |-> now, sm |-> sm, pump |-> pump, scale |-> scale,
     button |-> button, display |-> display, eeprom |-> eeprom,
     reqs |-> << >>, hooks |-> << >>, beeps |-> << >>]

\* some request of the log asks for state name n
Requested(log, n) == \E i \in 1 .. Len(log) : log[i].to = n

\* some request of the log for state name n was granted
Granted(log, n) == \E i \in 1 .. Len(log) : log[i].to = n /\ log[i].granted

\* the objects after a call that delivered command cmd (NoCmd: none)
Becomes(w, cmd) ==
    /\ sm' = w.sm
    /\ pump' = w.pump
    /\ scale' = w.scale
    /\ button' = w.button
    /\ display' = w.display
    /\ eeprom' = w.eeprom
    /\ reqs' = w.reqs
    /\ hooks' = w.hooks
    /\ beeps' = w.beeps
    /\ hist' = [cmd |-> cmd,
                errorDue |->
                    IF pc = "sm" THEN Granted(w.reqs, "ERROR")
                    ELSE IF pc = "begin" THEN FALSE
                    ELSE hist.errorDue,
                stopped |->
                    IF Requested(w.reqs, "FILLING") THEN FALSE
                    ELSE IF cmd = CMD_STOP /\ sm.currentState.name = "FILLING"
                    THEN TRUE
                    ELSE hist.stopped,
                flagTick |->
                    IF w.sm.currentState.emergencyStopFlag
                       /\ ~sm.currentState.emergencyStopFlag
                    THEN 1
                    ELSE hist.flagTick,
                pumpWas |-> isPumpOn(pump)]

\* values the members StateMachine() leaves uninitialised may hold
UninitMembers ==
    {[currentError |-> "ERR_NONE", fillTarget |-> 0],
     [currentError |-> "ERR_NO_FLOW", fillTarget |-> 800]}

\* setup(): load the calibration, start the actuators, request the first state
Setup(flag, factorFlag, ew, uninit) ==
    LET sc == loadCalibrationFromEEPROM(Scale_new, flag, factorFlag, ew)
        w0 == [now |-> 0,
               sm |-> [currentState |-> NullState, nextState |-> NullState,
                       stateTransitionPending |-> FALSE,
                       currentError |-> uninit.currentError,
                       fillTarget |-> uninit.fillTarget],
               pump |-> PumpController_begin(PumpController_new, 0),
               scale |-> sc, button |-> Button_new, display |-> Display_new,
               eeprom |-> [flag |-> flag,
                           emptyWeight |-> IF flag THEN ew ELSE 0,
                           factorFlag |-> flag /\ factorFlag],
               reqs |-> << >>, hooks |-> << >>, beeps |-> << >>]
    IN IF ~sc.factorCalibrated THEN w0
       ELSE IF ~sc.isCalibrated
            THEN toCalibration([w0 EXCEPT !.display.calibrationInProgress = TRUE])
            ELSE toIdle(w0)

Init ==
    \E flag \in BOOLEAN, factorFlag \in BOOLEAN, ew \in EmptyWeights,
       uninit \in UninitMembers, l \in RawWeights :
        LET w == Setup(flag, factorFlag, ew, uninit)
        IN /\ now = 0
           /\ pc = "begin"
           /\ sm = w.sm
           /\ pump = w.pump
           /\ scale = w.scale
           /\ button = w.button
           /\ display = w.display
           /\ eeprom = w.eeprom
           /\ reqs = w.reqs
           /\ hooks = w.hooks
           /\ beeps = w.beeps
           /\ load = l
           /\ events = MaxEvents
           /\ hist = [cmd |-> NoCmd, errorDue |-> FALSE, stopped |-> FALSE,
                      flagTick |-> 0, pumpWas |-> FALSE]

\* ------------------------------------------------------------------------
\* loop()
\* ------------------------------------------------------------------------
\* a pass of loop() starts once LOOP_DELAY has elapsed; the load on the
\* scale may have changed since the previous pass
LoopBegin ==
    /\ pc = "begin"
    /\ now + PassTime <= MaxTime
    /\ Long(Sub(now + PassTime, now)) >= Long(LOOP_DELAY)
    /\ now' = (now + PassTime) % TickRange
    /\ \E l \in RawWeights :
        /\ l # load => events > 0
        /\ load' = l
        /\ events' = IF l # load THEN events - 1 ELSE events
    /\ pc' = "mqtt"
    /\ reqs' = << >>
    /\ hooks' = << >>
    /\ beeps' = << >>
    /\ hist' = [hist EXCEPT !.cmd = NoCmd,
                            !.flagTick = IF @ = 0 THEN 0 ELSE (@ + 1) % 3,
                            !.pumpWas = isPumpOn(pump)]
    /\ UNCHANGED << sm, pump, scale, button, display, eeprom >>

\* ArduinoOTA onStart: the pump is switched off and Idle is requested
OtaStart ==
    /\ pc = "begin"
    /\ events > 0
    /\ events' = events - 1
    /\ Becomes(toIdle([World EXCEPT !.pump = pumpOff(@)]), NoCmd)
    /\ UNCHANGED << now, pc, load >>

\* a collaborator calls toIdle(), toFilling(target) or toCalibration()
ApiRequest ==
    /\ pc = "begin"
    /\ events > 0
    /\ events' = events - 1
    /\ \/ Becomes(toIdle(World), NoCmd)
       \/ \E t \in ApiTargets : Becomes(toFilling(World, t), NoCmd)
       \/ Becomes(toCalibration(World), NoCmd)
    /\ UNCHANGED << now, pc, load >>

\* mqttManager->loop() delivers command mode to handleMqttCommand
MqttCommand ==
    /\ pc = "mqtt"
    /\ events > 0
    /\ \E mode \in Modes, avail \in BOOLEAN :
        /\ avail \/ events > 1
        /\ ~avail => (sm.currentState.name = "IDLE" /\ mode \in 1 .. 7)
        /\ events' = IF avail THEN events - 1 ELSE events - 2
        /\ Becomes(handleMqttCommand(World, mode, avail), mode)
    /\ pc' = "button"
    /\ UNCHANGED << now, load >>

\* mqttManager->loop() with no command pending
MqttNone ==
    /\ pc = "mqtt"
    /\ Becomes(World, NoCmd)
    /\ pc' = "button"
    /\ UNCHANGED << now, load, events >>

\* button.tick(); a hold is released before the reset thresholds
ButtonTick ==
    /\ pc = "button"
    /\ \E rawLow \in BOOLEAN :
        /\ rawLow # button.lastRawLow => events > 0
        /\ (rawLow /\ button.pressStartTime # 0)
              => Sub(now, button.pressStartTime) < RESET_CALIB_TIME
        /\ events' = IF rawLow # button.lastRawLow THEN events - 1 ELSE events
        /\ Becomes([World EXCEPT !.button = Button_tick(@, rawLow, now)], NoCmd)
    /\ pc' = "long"
    /\ UNCHANGED << now, load >>

\* step 6 of loop(): button.isLongPress() is polled for the WiFi portal
LoopLongPress ==
    /\ pc = "long"
    /\ Becomes([World EXCEPT !.button = Button_afterLongPress(@, now)], NoCmd)
    /\ pc' = "pump"
    /\ UNCHANGED << now, load, events >>

\* pump.update()
PumpUpdate ==
    /\ pc = "pump"
    /\ Becomes([World EXCEPT !.pump = PumpController_update(@, now)], NoCmd)
    /\ pc' = "sm"
    /\ UNCHANGED << now, load, events >>

\* the state whose update() runs in this pass
UpdatingState ==
    IF sm.stateTransitionPending /\ sm.nextState # NullState
    THEN sm.nextState.name
    ELSE sm.currentState.name

\* stateMachine->update(); the HX711 may fail to answer isReady() or update()
SMUpdate ==
    /\ pc = "sm"
    /\ \E a1 \in BOOLEAN, a2 \in BOOLEAN :
        /\ (a1 /\ a2) \/ events > 0
        /\ ~a1 => a2
        /\ ~(a1 /\ a2) => UpdatingState \in {"IDLE", "FILLING", "CALIBRATION"}
        /\ events' = IF a1 /\ a2 THEN events ELSE events - 1
        /\ Becomes(StateMachine_update(World, a1, a2, load), NoCmd)
    /\ pc' = "handle"
    /\ UNCHANGED << now, load >>

\* stateMachine->handleButton(button); millis() has advanced by lag since
\* the start of the pass
SMHandleButton ==
    /\ pc = "handle"
    /\ \E avail \in BOOLEAN, lag \in {0, HandleLag} :
        /\ avail \/ events > 0
        /\ ~avail => (sm.currentState.name = "IDLE"
                      /\ button.clickCount \in {1, 2})
        /\ lag # 0 => (sm.currentState.name = "FILLING"
                       /\ isLongPress(button, now + lag))
        /\ events' = IF avail THEN events ELSE events - 1
        /\ LET w == StateMachine_handleButton(
                        [World EXCEPT !.now = now + lag], avail)
           IN Becomes([w EXCEPT !.now = now], NoCmd)
    /\ pc' = "wait"
    /\ UNCHANGED << now, load >>

\* stateMachine->updateDisplayWaiting()
UpdateDisplayWaiting ==
    /\ pc = "wait"
    /\ Becomes(Display_updateWaiting(World), NoCmd)
    /\ pc' = "begin"
    /\ UNCHANGED << now, load, events >>

Next ==
    \/ LoopBegin
    \/ OtaStart
    \/ ApiRequest
    \/ MqttCommand
    \/ MqttNone
    \/ ButtonTick
    \/ LoopLongPress
    \/ PumpUpdate
    \/ SMUpdate
    \/ SMHandleButton
    \/ UpdateDisplayWaiting

Spec == Init /\ [][Next]_vars

\* ------------------------------------------------------------------------
\* Runs that start after an uneventful prefix
\* ------------------------------------------------------------------------
\* One pass of loop() in which no command arrives and the HX711 answers, up
\* to and including stateMachine->update(): the button reads rawLow, the
\* sensor delivers raw.
PassToUpdate(w, t, rawLow, raw) ==
    LET w1 == [w EXCEPT !.now = t, !.reqs = << >>, !.hooks = << >>,
                        !.beeps = << >>]
        w2 == [w1 EXCEPT !.button =
                   Button_afterLongPress(Button_tick(@, rawLow, t), t)]
        w3 == [w2 EXCEPT !.pump = PumpController_update(@, t)]
    IN StateMachine_update(w3, TRUE, TRUE, raw)

\* the rest of the pass: handleButton and updateDisplayWaiting
PassFinish(w) == Display_updateWaiting(StateMachine_handleButton(w, TRUE))

QuietPass(w, t, rawLow, raw) == PassFinish(PassToUpdate(w, t, rawLow, raw))

\* the first n passes of a run: pass k starts at k * PassTime and reads the
\* button level sched[k][1] and the sample sched[k][2]
RECURSIVE RunPasses(_, _, _)
RunPasses(w, sched, n) ==
    IF n = 0 THEN w
    ELSE LET v == RunPasses(w, sched, n - 1)
         IN \* the test has TLC evaluate the earlier passes first
            IF v.now # n * PassTime
            THEN QuietPass(v, n * PassTime, sched[n][1], sched[n][2])
            ELSE v

\* the variables hold world w at step p of a pass, ev events remain
StartsAt(w, p, l, ev) ==
    /\ now = w.now
    /\ pc = p
    /\ sm = w.sm
    /\ pump = w.pump
    /\ scale = w.scale
    /\ button = w.button
    /\ display = w.display
    /\ eeprom = w.eeprom
    /\ reqs = << >>
    /\ hooks = << >>
    /\ beeps = << >>
    /\ load = l
    /\ events = ev
    /\ hist = [cmd |-> NoCmd, errorDue |-> FALSE, stopped |-> FALSE,
               flagTick |-> 0, pumpWas |-> isPumpOn(w.pump)]

\* A calibrated controller (empty weight 300 g) with l grams on the
\* platform; the button is pressed in passes 1..4 and released from pass 5,
\* so that the tick of pass 8 confirms the release and counts one click.
ClickWeights == {300, 700, 800, 1800, 2000}
ClickEvents == 1
ClickPasses == 8

ClickSchedule(l) ==
    [k \in 1 .. ClickPasses |-> << k <= ClickPasses \div 2, l >>]

ClickInit ==
    \E l \in ClickWeights, ew \in EmptyWeights, uninit \in UninitMembers :
        StartsAt(PassToUpdate(RunPasses(Setup(TRUE, TRUE, ew, uninit),
                                        ClickSchedule(l), ClickPasses - 1),
                              ClickPasses * PassTime, FALSE, l),
                 "handle", l, ClickEvents)

ClickSpec == ClickInit /\ [][Next]_vars

\* A calibrated controller that has spent FlowWarm passes in Idle with the
\* kettle on the platform, followed for long enough to see a fill through
\* the no-flow window.
FlowMaxTime == 12600
FlowEvents == 2
FlowWarm == 4
FlowWeights == {300, 800}

FlowInit ==
    \E l \in FlowWeights, ew \in EmptyWeights, uninit \in UninitMembers :
        StartsAt(RunPasses(Setup(TRUE, TRUE, ew, uninit),
                           [k \in 1 .. FlowWarm |-> << FALSE, l >>], FlowWarm),
                 "begin", l, FlowEvents)

\* LoopBegin, for passes that start while millis() <= FlowMaxTime
FlowBegin ==
    /\ pc = "begin"
    /\ now + PassTime <= FlowMaxTime
    /\ Long(Sub(now + PassTime, now)) >= Long(LOOP_DELAY)
    /\ now' = (now + PassTime) % TickRange
    /\ \E l \in RawWeights :
        /\ l # load => events > 0
        /\ load' = l
        /\ events' = IF l # load THEN events - 1 ELSE events
    /\ pc' = "mqtt"
    /\ reqs' = << >>
    /\ hooks' = << >>
    /\ beeps' = << >>
    /\ hist' = [hist EXCEPT !.cmd = NoCmd,
                            !.flagTick = IF @ = 0 THEN 0 ELSE (@ + 1) % 3,
                            !.pumpWas = isPumpOn(pump)]
    /\ UNCHANGED << sm, pump, scale, button, display, eeprom >>

FlowNext ==
    \/ FlowBegin
    \/ OtaStart
    \/ ApiRequest
    \/ MqttCommand
    \/ MqttNone
    \/ ButtonTick
    \/ LoopLongPress
    \/ PumpUpdate
    \/ SMUpdate
    \/ SMHandleButton
    \/ UpdateDisplayWaiting

FlowSpec == FlowInit /\ [][FlowNext]_vars

\* n further uneventful passes with the button released and the sensor
\* delivering raw
RECURSIVE QuietPasses(_, _, _)
QuietPasses(w, n, raw) ==
    IF n = 0 THEN w
    ELSE LET v == QuietPasses(w, n - 1, raw)
             t == (v.now + PassTime) % TickRange
         IN \* the test has TLC evaluate the earlier passes first
            IF t # v.now THEN QuietPass(v, t, FALSE, raw) ELSE v

\* a pass in which mqttManager->loop() delivers command mode
CommandPass(w, t, mode, raw) ==
    LET w1 == [w EXCEPT !.now = t, !.reqs = << >>, !.hooks = << >>,
                        !.beeps = << >>]
        w2 == handleMqttCommand(w1, mode, TRUE)
        w3 == [w2 EXCEPT !.button =
                   Button_afterLongPress(Button_tick(@, FALSE, t), t)]
        w4 == [w3 EXCEPT !.pump = PumpController_update(@, t)]
    IN PassFinish(StateMachine_update(w4, TRUE, TRUE, raw))

\* In Idle with a steady load and a full filter window the passes repeat
\* with the period of the kettle-power check: only millis(),
\* lastPowerCheckTime and the write index of the filter move on.
IdlePeriod == (POWER_CHECK_PERIOD \div PassTime) + 1

\* the controller after n more such passes, n a multiple of IdlePeriod
IdleFor(w, n) ==
    [w EXCEPT !.now = (@ + n * PassTime) % TickRange,
              !.sm.currentState.lastPowerCheckTime =
                  (@ + n * PassTime) % TickRange,
              !.scale.readIndex = (@ + n) % STABLE_READINGS]

\* Once the pump runs and the filter holds one steady weight away from the
\* start weight, the passes of a fill change nothing but millis() and the
\* write index of the filter: the controller after n more such passes.
FillFor(w, n) ==
    [w EXCEPT !.now = (@ + n * PassTime) % TickRange,
              !.scale.readIndex = (@ + n) % STABLE_READINGS]

\* A fill to the full level that has gained 500 g and then stalled, shortly
\* before PUMP_TIMEOUT; it was started right after boot, or so late that
\* millis() wraps around during the fill.
WrapLead == 123200
TimeoutWarm == 6
TimeoutSettle == 10
TimeoutQuiet == 170
TimeoutEvents == 2
TimeoutSpan == 4200

\* passes of the fill before the first one of the specification: TimeoutQuiet
\* of them, as long as that many end before PUMP_TIMEOUT has elapsed
TimeoutSkipped ==
    IF TimeoutQuiet * PassTime < PUMP_TIMEOUT THEN TimeoutQuiet
    ELSE (PUMP_TIMEOUT \div PassTime) - 1

\* passes spent in Idle before the fill
TimeoutBases ==
    {0, ((TickRange - WrapLead) \div (IdlePeriod * PassTime)) * IdlePeriod}

TimeoutWorld(base) ==
    LET idle == RunPasses(Setup(TRUE, TRUE, 300, [currentError |-> "ERR_NONE",
                                                  fillTarget |-> 0]),
                          [k \in 1 .. TimeoutWarm |-> << FALSE, 300 >>],
                          TimeoutWarm)
        late == IdleFor(idle, base)
        fill == CommandPass(late, (late.now + PassTime) % TickRange,
                            CMD_FULL, 300)
    IN FillFor(QuietPasses(fill, TimeoutSettle, 800),
               TimeoutSkipped - TimeoutSettle)

\* millis() at the end of that prefix
TimeoutStart(base) ==
    ((base + TimeoutWarm + 1 + TimeoutSkipped) * PassTime) % TickRange

TimeoutInit ==
    \E base \in TimeoutBases :
        StartsAt(TimeoutWorld(base), "begin", 800, TimeoutEvents)

\* LoopBegin, for the passes of the TimeoutSpan milliseconds after the start
TimeoutBegin ==
    /\ pc = "begin"
    /\ \E base \in TimeoutBases :
          Sub(now + PassTime, TimeoutStart(base)) <= TimeoutSpan
    /\ Long(Sub(now + PassTime, now)) >= Long(LOOP_DELAY)
    /\ now' = (now + PassTime) % TickRange
    /\ \E l \in RawWeights :
        /\ l # load => events > 0
        /\ load' = l
        /\ events' = IF l # load THEN events - 1 ELSE events
    /\ pc' = "mqtt"
    /\ reqs' = << >>
    /\ hooks' = << >>
    /\ beeps' = << >>
    /\ hist' = [hist EXCEPT !.cmd = NoCmd,
                            !.flagTick = IF @ = 0 THEN 0 ELSE (@ + 1) % 3,
                            !.pumpWas = isPumpOn(pump)]
    /\ UNCHANGED << sm, pump, scale, button, display, eeprom >>

TimeoutNext ==
    \/ TimeoutBegin
    \/ OtaStart
    \/ ApiRequest
    \/ MqttCommand
    \/ MqttNone
    \/ ButtonTick
    \/ LoopLongPress
    \/ PumpUpdate
    \/ SMUpdate
    \/ SMHandleButton
    \/ UpdateDisplayWaiting

TimeoutSpec == TimeoutInit /\ [][TimeoutNext]_vars

\* A calibration asked for before the first pass of loop(), with the
\* platform empty: the button is pressed in passes 1..4 and released from
\* pass 5, which confirms step 1; the run starts when the release is
\* confirmed and the calibration waits for the kettle (step 2).
CalibMaxTime == 11200
CalibEvents == 2
CalibPasses == 8

CalibInit ==
    \E ew \in EmptyWeights, uninit \in UninitMembers :
        StartsAt(RunPasses(toCalibration(Setup(TRUE, TRUE, ew, uninit)),
                           [k \in 1 .. CalibPasses |->
                               << k <= CalibPasses \div 2, 0 >>],
                           CalibPasses),
                 "begin", 0, CalibEvents)

\* LoopBegin, for passes that start while millis() <= CalibMaxTime
CalibBegin ==
    /\ pc = "begin"
    /\ now + PassTime <= CalibMaxTime
    /\ Long(Sub(now + PassTime, now)) >= Long(LOOP_DELAY)
    /\ now' = (now + PassTime) % TickRange
    /\ \E l \in RawWeights :
        /\ l # load => events > 0
        /\ load' = l
        /\ events' = IF l # load THEN events - 1 ELSE events
    /\ pc' = "mqtt"
    /\ reqs' = << >>
    /\ hooks' = << >>
    /\ beeps' = << >>
    /\ hist' = [hist EXCEPT !.cmd = NoCmd,
                            !.flagTick = IF @ = 0 THEN 0 ELSE (@ + 1) % 3,
                            !.pumpWas = isPumpOn(pump)]
    /\ UNCHANGED << sm, pump, scale, button, display, eeprom >>

CalibNext ==
    \/ CalibBegin
    \/ OtaStart
    \/ ApiRequest
    \/ MqttCommand
    \/ MqttNone
    \/ ButtonTick
    \/ LoopLongPress
    \/ PumpUpdate
    \/ SMUpdate
    \/ SMHandleButton
    \/ UpdateDisplayWaiting

CalibSpec == CalibInit /\ [][CalibNext]_vars

\* A calibration carried through: the button is pressed for step 1 in
\* passes 1..4 with the platform empty, the kettle (300 g) stands on it from
\* pass 5, and the press of passes 9..12 is confirmed in pass 12, which
\* stores the weight and starts the success indication. The run follows the
\* loop from there, at DelayLoop * LOOP_DELAY per pass.
DelayMaxTime == 12000
DelayEvents == 3
DelayPasses == 12
DelayLoop == 2

DelaySchedule ==
    [k \in 1 .. DelayPasses |->
        << k <= DelayPasses \div 3 \/ k > 2 * (DelayPasses \div 3),
           IF k <= DelayPasses \div 3 THEN 0 ELSE 300 >>]

DelayInit ==
    \E ew \in EmptyWeights, uninit \in UninitMembers :
        StartsAt(RunPasses(toCalibration(Setup(TRUE, TRUE, ew, uninit)),
                           DelaySchedule, DelayPasses),
                 "begin", 300, DelayEvents)

\* LoopBegin, for passes DelayLoop * LOOP_DELAY apart that start while
\* millis() <= DelayMaxTime
DelayBegin ==
    /\ pc = "begin"
    /\ now + DelayLoop * LOOP_DELAY <= DelayMaxTime
    /\ Long(Sub(now + DelayLoop * LOOP_DELAY, now)) >= Long(LOOP_DELAY)
    /\ now' = (now + DelayLoop * LOOP_DELAY) % TickRange
    /\ \E l \in RawWeights :
        /\ l # load => events > 0
        /\ load' = l
        /\ events' = IF l # load THEN events - 1 ELSE events
    /\ pc' = "mqtt"
    /\ reqs' = << >>
    /\ hooks' = << >>
    /\ beeps' = << >>
    /\ hist' = [hist EXCEPT !.cmd = NoCmd,
                            !.flagTick = IF @ = 0 THEN 0 ELSE (@ + 1) % 3,
                            !.pumpWas = isPumpOn(pump)]
    /\ UNCHANGED << sm, pump, scale, button, display, eeprom >>

DelayNext ==
    \/ DelayBegin
    \/ OtaStart
    \/ ApiRequest
    \/ MqttCommand
    \/ MqttNone
    \/ ButtonTick
    \/ LoopLongPress
    \/ PumpUpdate
    \/ SMUpdate
    \/ SMHandleButton
    \/ UpdateDisplayWaiting

DelaySpec == DelayInit /\ [][DelayNext]_vars

\* ------------------------------------------------------------------------
\* The kettle-power decision of Idle
\* ------------------------------------------------------------------------
\* A calibrated controller (empty weight 300 g) that has spent PowerWarm
\* uneventful passes with the same load, then runs passes PowerLoop *
\* LOOP_DELAY apart with loads that include one inside the band between
\* MIN_WATER_LEVEL - WEIGHT_HYST and MIN_WATER_LEVEL.
PowerMaxTime == 6400
PowerEvents == 2
PowerWarm == 4
PowerLoop == 6
PowerWeights == {0, 300, 790, 800}

PowerInit ==
    \E l \in {300, 800}, uninit \in UninitMembers :
        StartsAt(RunPasses(Setup(TRUE, TRUE, 300, uninit),
                           [k \in 1 .. PowerWarm |-> << FALSE, l >>],
                           PowerWarm),
                 "begin", l, PowerEvents)

\* LoopBegin, for passes PowerLoop * LOOP_DELAY apart that start while
\* millis() <= PowerMaxTime
PowerBegin ==
    /\ pc = "begin"
    /\ now + PowerLoop * LOOP_DELAY <= PowerMaxTime
    /\ Long(Sub(now + PowerLoop * LOOP_DELAY, now)) >= Long(LOOP_DELAY)
    /\ now' = (now + PowerLoop * LOOP_DELAY) % TickRange
    /\ \E l \in PowerWeights :
        /\ l # load => events > 0
        /\ load' = l
        /\ events' = IF l # load THEN events - 1 ELSE events
    /\ pc' = "mqtt"
    /\ reqs' = << >>
    /\ hooks' = << >>
    /\ beeps' = << >>
    /\ hist' = [hist EXCEPT !.cmd = NoCmd,
                            !.flagTick = IF @ = 0 THEN 0 ELSE (@ + 1) % 3,
                            !.pumpWas = isPumpOn(pump)]
    /\ UNCHANGED << sm, pump, scale, button, display, eeprom >>

PowerNext ==
    \/ PowerBegin
    \/ OtaStart
    \/ ApiRequest
    \/ MqttCommand
    \/ MqttNone
    \/ ButtonTick
    \/ LoopLongPress
    \/ PumpUpdate
    \/ SMUpdate
    \/ SMHandleButton
    \/ UpdateDisplayWaiting

PowerSpec == PowerInit /\ [][PowerNext]_vars

\* ------------------------------------------------------------------------
\* The Button object by itself
\* ------------------------------------------------------------------------
\* A client calls tick(), isLongPress(), isVeryLongPress() and resetClicks()
\* in any order while millis() advances between the ticks; the other objects
\* stay as setup() left them. reqs logs the gestures reported since the last
\* confirmed press. A run of ButtonSpec starts from a button that has counted
\* 0..3 clicks in quick succession since ButtonBoot, a run of WrapSpec from a
\* fresh button ButtonLead ms before millis() wraps.
ButtonSteps == {0, 60}       \* millis() between two ticks
ButtonHold == 1500           \* the same, while the first press of a run is held
ButtonBoot == 0
ButtonLead == 60
ButtonFine == 100            \* an idle button is followed up to this time
ButtonMaxTime == 12000
ButtonEvents == 3            \* changes of the raw level in one run
ButtonClicks == 3            \* clicks counted before the run starts

\* the ticks of one click: << ms since the previous tick, level is LOW >>
ClickCycle ==
    << << 60, TRUE >>, << 60, TRUE >>, << 0, TRUE >>, << 0, TRUE >>,
       << 60, FALSE >>, << 60, FALSE >>, << 0, FALSE >>, << 0, FALSE >> >>

CycleStep(i) == ClickCycle[((i - 1) % Len(ClickCycle)) + 1]

\* millis() at tick n of a series of clicks
RECURSIVE TickTime(_)
TickTime(n) ==
    IF n = 0 THEN ButtonBoot ELSE TickTime(n - 1) + CycleStep(n)[1]

\* the button after tick n of a series of clicks
RECURSIVE Ticked(_)
Ticked(n) ==
    IF n = 0 THEN Button_new
    ELSE LET b == Ticked(n - 1)
         IN \* the test has TLC evaluate the earlier ticks first
            IF b.lastDebounceTime <= TickTime(n)
            THEN Button_tick(b, CycleStep(n)[2], TickTime(n))
            ELSE b

ButtonObject(b, t) ==
    [toIdle(Setup(TRUE, TRUE, 300, [currentError |-> "ERR_NONE",
                                    fillTarget |-> 0]))
        EXCEPT !.now = t, !.button = b]

ButtonInit ==
    \E k \in 0 .. ButtonClicks :
        StartsAt(ButtonObject(Ticked(k * Len(ClickCycle)),
                              TickTime(k * Len(ClickCycle))),
                 "button", 0, ButtonEvents)

WrapInit ==
    StartsAt(ButtonObject(Button_new, TickRange - ButtonLead),
             "button", 0, ButtonEvents)

ButtonOnly ==
    UNCHANGED << pc, sm, pump, scale, display, eeprom, load, hooks, beeps,
                 hist >>

\* the button neither bounces nor waits for a further click
ButtonAtRest(b) ==
    /\ b.lastRawLow = b.lastStableLow
    /\ b.stableConfirmCount >= HYSTERESIS_COUNT
    /\ b.clickCount = 0

\* the times that may pass before the next tick
ButtonDelays ==
    (IF ButtonAtRest(button) /\ Long(now) >= ButtonFine
     THEN {} ELSE ButtonSteps)
    \cup (IF ButtonAtRest(button) /\ button.lastStableLow
             /\ events = ButtonEvents - 1
          THEN {ButtonHold} ELSE {})

\* button.tick() reads millis() and the pin
ButtonPoll ==
    /\ \E s \in ButtonDelays, rawLow \in BOOLEAN :
        /\ Long((now + s) % TickRange) <= ButtonMaxTime
        /\ rawLow # button.lastRawLow => events > 0
        /\ events' = IF rawLow # button.lastRawLow THEN events - 1 ELSE events
        /\ now' = (now + s) % TickRange
        /\ button' = Button_tick(button, rawLow, now')
    /\ reqs' = IF button'.lastStableLow /\ ~button.lastStableLow
               THEN << >> ELSE reqs
    /\ ButtonOnly

\* button.isLongPress()
ButtonLongPress ==
    /\ button' = Button_afterLongPress(button, now)
    /\ reqs' = IF isLongPress(button, now) THEN Append(reqs, "long") ELSE reqs
    /\ UNCHANGED << now, events >>
    /\ ButtonOnly

\* button.isVeryLongPress()
ButtonVeryLongPress ==
    /\ button' = Button_afterVeryLongPress(button, now)
    /\ reqs' = IF isVeryLongPress(button, now)
               THEN Append(reqs, "verylong") ELSE reqs
    /\ UNCHANGED << now, events >>
    /\ ButtonOnly

\* button.resetClicks()
ButtonReset ==
    /\ button' = resetClicks(button)
    /\ UNCHANGED << now, events, reqs >>
    /\ ButtonOnly

ButtonNext ==
    \/ ButtonPoll
    \/ ButtonLongPress
    \/ ButtonVeryLongPress
    \/ ButtonReset

ButtonSpec == ButtonInit /\ [][ButtonNext]_vars

WrapSpec == WrapInit /\ [][ButtonNext]_vars

\* ------------------------------------------------------------------------
\* The filter of Scale::update() by itself
\* ------------------------------------------------------------------------
\* update() is called once per LOOP_DELAY with a converted sample from
\* FilterSamples, or finds the HX711 not available. reqs logs the calls made
\* since the sensor was last unavailable, the last STABLE_READINGS of them:
\* v is the converted, clamped sample, stored tells whether it entered the
\* buffer.
FilterSamples == {0 - 50, 300, 400, 1000}
FilterMaxTime == 800

FilterInit == StartsAt(ButtonObject(Button_new, 0), "sm", 0, 0)

FilterOnly ==
    UNCHANGED << pc, sm, pump, button, display, eeprom, load, events, hooks,
                 beeps, hist >>

\* scale.update() with the sensor available
FilterUpdate ==
    /\ now + LOOP_DELAY <= FilterMaxTime
    /\ now' = now + LOOP_DELAY
    /\ \E raw \in FilterSamples :
        /\ scale' = Scale_update(scale, TRUE, raw)
        /\ LET log == Append(reqs, [v |-> IF raw < 0 THEN 0 ELSE raw,
                                    stored |-> scale'.readIndex
                                                  # scale.readIndex])
           IN reqs' = IF Len(log) > STABLE_READINGS THEN Tail(log) ELSE log
    /\ FilterOnly

\* scale.update() with the sensor not available
FilterDropout ==
    /\ now + LOOP_DELAY <= FilterMaxTime
    /\ now' = now + LOOP_DELAY
    /\ scale' = Scale_update(scale, FALSE, 0)
    /\ reqs' = << >>
    /\ FilterOnly

FilterNext ==
    \/ FilterUpdate
    \/ FilterDropout

FilterSpec == FilterInit /\ [][FilterNext]_vars

\* ------------------------------------------------------------------------
\* The calibration of Scale and its record in the EEPROM
\* ------------------------------------------------------------------------
\* The calibration methods of Scale are called in any order, and the device
\* may be restarted between them. Here scale also has the members
\* calibrationFactor (in millionths of a gram per ADC count) and eepromAddr,
\* and eeprom maps the address of a record to its bytes: flag at addr,
\* emptyWeight at addr + 4, calibrationFactor at addr + 8, factorFlag at
\* addr + 12. EEPROM.put and EEPROM.get copy the bytes of a float, so a value
\* that was stored is read back as it was written. EEPROM.begin(EEPROM_SIZE)
\* gives the store EEPROM_SIZE bytes: a byte or a float that does not lie
\* within them is not stored, reading such a byte gives 0 and reading such
\* a float leaves the variable as it was. reqs holds the last three calls,
\* each with its address (for a reset, the address the object uses) and the
\* values the object had when it was made.
DEFAULT_FACTOR == 420
EEPROM_FLAG_VALUE == 170
EEPROM_LAST_ADDR == 508
EEPROM_SIZE == 512
ERASED_BYTE == 255

StoreSlots == {0, 508}       \* addresses that save and load accept
StoreBadSlots == {509}       \* an address out of range
StoreWeights == {300}        \* arguments of calibrateEmpty
StoreKnown == {0, 500}       \* arguments of calibrateFactor
StoreRawValue == 1000000     \* the ADC count that calibrateFactor reads
StoreFactors == {1000}       \* arguments of setCalibrationFactor
StoreEvents == 5             \* calls in one run
StoreLog == 3                \* calls that reqs remembers

\* a record never written, and one left by an earlier calibration
StoreRecords ==
    {[flag |-> ERASED_BYTE, emptyWeight |-> 0, calibrationFactor |-> 0,
      factorFlag |-> ERASED_BYTE],
     [flag |-> EEPROM_FLAG_VALUE, emptyWeight |-> 1200,
      calibrationFactor |-> 380, factorFlag |-> EEPROM_FLAG_VALUE]}

ValidAddr(addr) == addr >= 0 /\ addr <= EEPROM_LAST_ADDR

\* the bytes of the record at addr that lie within the store
WeightFits(addr) == addr + 4 + 4 <= EEPROM_SIZE
FactorFits(addr) == addr + 8 + 4 <= EEPROM_SIZE
FactorFlagFits(addr) == addr + 12 < EEPROM_SIZE

\* the record rec as the store holds it at addr
StoreFit(addr, rec) ==
    [flag |-> rec.flag,
     emptyWeight |-> IF WeightFits(addr) THEN rec.emptyWeight ELSE 0,
     calibrationFactor |->
         IF FactorFits(addr) THEN rec.calibrationFactor ELSE 0,
     factorFlag |-> IF FactorFlagFits(addr) THEN rec.factorFlag ELSE 0]

\* Scale::Scale()
ScaleObject ==
    Scale_new @@ [calibrationFactor |-> DEFAULT_FACTOR, eepromAddr |-> 0]

StoreInit ==
    \E rom \in [StoreSlots -> StoreRecords] :
        StartsAt([ButtonObject(Button_new, 0)
                     EXCEPT !.scale = ScaleObject,
                            !.eeprom = [a \in StoreSlots |->
                                           StoreFit(a, rom[a])]],
                 "sm", 0, StoreEvents)

\* one more call, op with address addr; the other objects are not involved
StoreCall(op, addr) ==
    /\ events > 0
    /\ events' = events - 1
    /\ reqs' = LET log == Append(reqs,
                              [op |-> op, addr |-> addr,
                               emptyWeight |-> scale.emptyWeight,
                               calibrationFactor |-> scale.calibrationFactor,
                               isCalibrated |-> scale.isCalibrated,
                               factorCalibrated |-> scale.factorCalibrated])
               IN  IF Len(log) > StoreLog THEN Tail(log) ELSE log
    /\ UNCHANGED << now, pc, sm, pump, button, display, load, hooks, beeps,
                    hist >>

\* the device is switched off and on: the object is constructed again
StoreRestart ==
    /\ scale' = ScaleObject
    /\ StoreCall("restart", 0)
    /\ UNCHANGED eeprom

\* scale.calibrateFactor(knownWeight)
StoreCalibrateFactor ==
    /\ \E knownWeight \in StoreKnown :
        scale' = IF knownWeight <= 0 THEN scale
                 ELSE [scale EXCEPT
                          !.calibrationFactor =
                              (knownWeight * 1000000) \div StoreRawValue,
                          !.factorCalibrated = TRUE]
    /\ StoreCall("calibrateFactor", 0)
    /\ UNCHANGED eeprom

\* scale.setCalibrationFactor(factor)
StoreSetCalibrationFactor ==
    /\ \E factor \in StoreFactors :
        scale' = [scale EXCEPT !.calibrationFactor = factor]
    /\ StoreCall("setCalibrationFactor", 0)
    /\ UNCHANGED eeprom

\* scale.calibrateEmpty(weight)
StoreCalibrateEmpty ==
    /\ \E weight \in StoreWeights : scale' = calibrateEmpty(scale, weight)
    /\ StoreCall("calibrateEmpty", 0)
    /\ UNCHANGED eeprom

\* scale.resetFactor()
StoreResetFactor ==
    /\ scale' = [scale EXCEPT !.calibrationFactor = DEFAULT_FACTOR,
                              !.factorCalibrated = FALSE]
    /\ StoreCall("resetFactor", scale.eepromAddr)
    /\ UNCHANGED eeprom

\* scale.resetCalibration()
StoreResetCalibration ==
    /\ scale' = [scale EXCEPT !.isCalibrated = FALSE,
                              !.factorCalibrated = FALSE,
                              !.emptyWeight = 0,
                              !.calibrationFactor = DEFAULT_FACTOR]
    /\ eeprom' = IF ValidAddr(scale.eepromAddr)
                 THEN [eeprom EXCEPT ![scale.eepromAddr] =
                          StoreFit(scale.eepromAddr,
                                   [flag |-> 0, emptyWeight |-> 0,
                                    calibrationFactor |-> DEFAULT_FACTOR,
                                    factorFlag |-> 0])]
                 ELSE eeprom
    /\ StoreCall("resetCalibration", scale.eepromAddr)

\* scale.saveCalibrationToEEPROM(addr)
StoreSave ==
    \E addr \in StoreSlots \cup StoreBadSlots :
        /\ IF ~ValidAddr(addr) THEN UNCHANGED << scale, eeprom >>
           ELSE /\ scale' = [scale EXCEPT !.eepromAddr = addr]
                /\ eeprom' = [eeprom EXCEPT ![addr] =
                       StoreFit(addr,
                           [flag |-> EEPROM_FLAG_VALUE,
                            emptyWeight |-> scale.emptyWeight,
                            calibrationFactor |-> scale.calibrationFactor,
                            factorFlag |-> IF scale.factorCalibrated
                                           THEN EEPROM_FLAG_VALUE ELSE 0])]
        /\ StoreCall("save", addr)

\* scale.loadCalibrationFromEEPROM(addr)
StoreLoad ==
    \E addr \in StoreSlots \cup StoreBadSlots :
        /\ scale' =
              IF ~ValidAddr(addr)
              THEN [scale EXCEPT !.isCalibrated = FALSE,
                                 !.factorCalibrated = FALSE]
              ELSE IF eeprom[addr].flag = EEPROM_FLAG_VALUE
              THEN [scale EXCEPT
                       !.eepromAddr = addr,
                       !.emptyWeight =
                           IF WeightFits(addr)
                           THEN eeprom[addr].emptyWeight ELSE @,
                       !.calibrationFactor =
                           IF FactorFits(addr)
                           THEN eeprom[addr].calibrationFactor ELSE @,
                       !.factorCalibrated =
                           (eeprom[addr].factorFlag = EEPROM_FLAG_VALUE),
                       !.isCalibrated = TRUE]
              ELSE [scale EXCEPT !.eepromAddr = addr,
                                 !.isCalibrated = FALSE,
                                 !.factorCalibrated = FALSE,
                                 !.emptyWeight = 0,
                                 !.calibrationFactor = DEFAULT_FACTOR]
        /\ StoreCall("load", addr)
        /\ UNCHANGED eeprom

StoreNext ==
    \/ StoreRestart
    \/ StoreCalibrateFactor
    \/ StoreSetCalibrationFactor
    \/ StoreCalibrateEmpty
    \/ StoreResetFactor
    \/ StoreResetCalibration
    \/ StoreSave
    \/ StoreLoad

StoreSpec == StoreInit /\ [][StoreNext]_vars

\* ------------------------------------------------------------------------
\* The relays and the servo of PumpController by themselves
\* ------------------------------------------------------------------------
\* The methods of PumpController are called in any order between two polls
\* of update(). millis() starts at 0 with the object as begin() leaves it,
\* or PumpLead before the wraparound with an object that has not been used
\* since the servo reached its idle position. reqs holds the last call and
\* changedAt, the tick of the last change of the power relay (NoChange
\* before the first).
PumpSteps == {500, 1000}     \* millis() between two polls of update()
PumpLead == 2500
PumpMaxTime == 5000
NoChange == 0 - 1

PumpOrigins == {0, TickRange - PumpLead}

PumpObject(t) ==
    [ButtonObject(Button_new, t)
        EXCEPT !.pump = PumpController_update(
                            PumpController_begin(PumpController_new, 0), t)]

PumpInit == \E t \in PumpOrigins : StartsAt(PumpObject(t), "pump", 0, 0)

LastChange == IF reqs = << >> THEN NoChange ELSE reqs[1].changedAt

\* the call op has been made; the other objects are not involved
PumpCall(op) ==
    /\ reqs' = << [op |-> op,
                   changedAt |->
                       IF pump'.powerRelayState # pump.powerRelayState
                       THEN now ELSE LastChange] >>
    /\ UNCHANGED << pc, sm, scale, button, display, eeprom, load, events,
                    hooks, beeps, hist >>

\* loop(): pump.update() of the next pass
PumpPoll ==
    /\ \E s \in PumpSteps :
        /\ Long((now + s) % TickRange) <= PumpMaxTime
        /\ now' = (now + s) % TickRange
    /\ pump' = PumpController_update(pump, now')
    /\ PumpCall("update")

PumpPowerOn ==
    /\ pump' = powerOn(pump, now)
    /\ PumpCall("powerOn")
    /\ UNCHANGED now

PumpPowerOff ==
    /\ pump' = powerOff(pump, now)
    /\ PumpCall("powerOff")
    /\ UNCHANGED now

PumpSetPowerRelay ==
    /\ \E state \in BOOLEAN :
        /\ pump' = setPowerRelay(pump, state, now)
        /\ PumpCall(IF state THEN "setPowerRelayOn" ELSE "setPowerRelayOff")
    /\ UNCHANGED now

PumpMoveServoToKettle ==
    /\ pump' = moveServoToKettle(pump, now)
    /\ PumpCall("moveServoToKettle")
    /\ UNCHANGED now

PumpMoveServoToIdle ==
    /\ pump' = moveServoToIdle(pump, now)
    /\ PumpCall("moveServoToIdle")
    /\ UNCHANGED now

PumpNext ==
    \/ PumpPoll
    \/ PumpPowerOn
    \/ PumpPowerOff
    \/ PumpSetPowerRelay
    \/ PumpMoveServoToKettle
    \/ PumpMoveServoToIdle

PumpSpec == PumpInit /\ [][PumpNext]_vars

\* ------------------------------------------------------------------------
\* The buzzer sequencer of PumpController by itself
\* ------------------------------------------------------------------------
\* beepShortNonBlocking(count) and beepLongNonBlocking(count) are called at
\* any time between two polls of update(). Here pump also has the buzzer
\* members. reqs holds count, the pulses asked for by the last of these
\* calls; pulses, the pulses that have ended since; replaced, whether that
\* call came while a sequence was being played; riseAt, the tick at which
\* the output last became high.
BuzzerSteps == {100, 300}    \* millis() between two polls of update()
BuzzerCounts == 1 .. 3       \* arguments of the two calls
BuzzerMaxTime == 2400
BuzzerEvents == 2            \* calls in one run

BuzzerObject(t) ==
    [ButtonObject(Button_new, t) EXCEPT !.pump = @ @@ Buzzer_new]

BuzzerInit == StartsAt(BuzzerObject(0), "pump", 0, BuzzerEvents)

BuzzerLog ==
    IF reqs = << >>
    THEN [op |-> "none", count |-> 0, pulses |-> 0, replaced |-> FALSE,
          riseAt |-> 0]
    ELSE reqs[1]

BuzzerOnly ==
    UNCHANGED << pc, sm, scale, button, display, eeprom, load, hooks, beeps,
                 hist >>

\* loop(): pump.update() of the next pass
BuzzerPoll ==
    /\ \E s \in BuzzerSteps :
        /\ now + s <= BuzzerMaxTime
        /\ now' = now + s
    /\ pump' = updateBuzzer(pump, now')
    /\ reqs' = << [BuzzerLog EXCEPT
                      !.op = "update",
                      !.pulses = IF pump.buzzerOutputHigh
                                    /\ ~pump'.buzzerOutputHigh
                                 THEN @ + 1 ELSE @,
                      !.riseAt = IF ~pump.buzzerOutputHigh
                                    /\ pump'.buzzerOutputHigh
                                 THEN now' ELSE @] >>
    /\ UNCHANGED events
    /\ BuzzerOnly

\* pump.beepShortNonBlocking(count), pump.beepLongNonBlocking(count)
BuzzerBeep ==
    /\ events > 0
    /\ events' = events - 1
    /\ \E sequence \in {"BUZZER_SHORT_SEQUENCE", "BUZZER_LONG_SEQUENCE"},
          count \in BuzzerCounts :
        /\ pump' = Buzzer_start(pump, sequence, count, now)
        /\ reqs' = << [op |-> "start", count |-> count, pulses |-> 0,
                       replaced |-> pump.buzzerState # "BUZZER_IDLE",
                       riseAt |-> IF pump.buzzerOutputHigh
                                  THEN BuzzerLog.riseAt ELSE now] >>
    /\ UNCHANGED now
    /\ BuzzerOnly

BuzzerNext == BuzzerPoll \/ BuzzerBeep

BuzzerSpec == BuzzerInit /\ [][BuzzerNext]_vars

\* ------------------------------------------------------------------------
\* The buzzer while the controller is in Error
\* ------------------------------------------------------------------------
\* The controller has entered Error at AlertStart with the buzzer idle. In
\* every pass of loop() pump.update() runs and then ErrorState::update(),
\* which calls errorBeepLoopNonBlocking(); a remote command with a mode out
\* of range may arrive before a pass and is answered with two short pulses.
AlertSteps == {100, 200}     \* millis() between two passes of loop()
AlertStart == 1000
AlertMaxTime == 13000
AlertEvents == 1             \* remote commands in one run

AlertInit == StartsAt(BuzzerObject(AlertStart), "begin", 0, AlertEvents)

\* loop(): pump.update(), then stateMachine->update() in Error
AlertPass ==
    /\ \E s \in AlertSteps :
        /\ now + s <= AlertMaxTime
        /\ now' = now + s
    /\ pump' = Buzzer_errorLoop(updateBuzzer(pump, now'), now')
    /\ reqs' = << [BuzzerLog EXCEPT
                      !.op = "pass",
                      !.pulses = IF pump.buzzerOutputHigh
                                    /\ ~pump'.buzzerOutputHigh
                                 THEN @ + 1 ELSE @,
                      !.riseAt = IF ~pump.buzzerOutputHigh
                                    /\ pump'.buzzerOutputHigh
                                 THEN now' ELSE @] >>
    /\ UNCHANGED events
    /\ BuzzerOnly

\* handleMqttCommand(mode) with mode < 1 or mode > 8
AlertCommand ==
    /\ events > 0
    /\ events' = events - 1
    /\ pump' = Buzzer_start(pump, "BUZZER_SHORT_SEQUENCE", 2, now)
    /\ reqs' = << [op |-> "start", count |-> 2, pulses |-> 0,
                   replaced |-> pump.buzzerState # "BUZZER_IDLE",
                   riseAt |-> IF pump.buzzerOutputHigh
                              THEN BuzzerLog.riseAt ELSE now] >>
    /\ UNCHANGED now
    /\ BuzzerOnly

AlertNext == AlertPass \/ AlertCommand

AlertSpec == AlertInit /\ [][AlertNext]_vars

\* ------------------------------------------------------------------------
\* Properties
\* ------------------------------------------------------------------------
HookRun(name, hook) ==
    \E i \in 1 .. Len(hooks) : hooks[i] = << name, hook >>

\* time the button has been held, measured at the start of the pass
HoldTime == Sub(now, button.pressStartTime)

\* C1: once the current state is Error it stays Error, whatever step of
\* loop() runs next: ticks, button gestures, remote commands 1..8, the
\* display-timer callback, and direct toIdle/toFilling/toCalibration requests.
C1_ErrorIsAbsorbing ==
    [][sm.currentState.name = "ERROR" => sm'.currentState.name = "ERROR"]_vars

\* C1 witness: in Error, a request to leave for Idle has just been refused
C1_Witness ==
    /\ sm.currentState.name = "ERROR"
    /\ \E i \in 1 .. Len(reqs) :
          reqs[i].from = "ERROR" /\ reqs[i].to = "IDLE" /\ ~reqs[i].granted

C3_PumpOffOutsideFilling ==
    (pc = "handle" /\ sm.currentState.name \in {"IDLE", "CALIBRATION", "ERROR"})
        => ~isPumpOn(pump)

\* C3 witness: an update that left Filling while the pump was running
C3_Witness ==
    /\ pc = "handle"
    /\ sm.currentState.name \in {"IDLE", "ERROR"}
    /\ HookRun("FILLING", "exit")
    /\ hist.pumpWas

\* C4: right after ErrorState::enter the pump relay and the kettle-power
\* relay are both off, however recently the power relay was toggled.
C4_RelaysOffOnErrorEnter ==
    HookRun("ERROR", "enter")
        => (~pump.pumpRelayState /\ ~pump.powerRelayState)

\* C5: in Error the servo comes to rest only in its idle position, also
\* when Error was entered from Filling with the servo on its way to the
\* kettle.
C5_ServoParkedInError ==
    (sm.currentState.name = "ERROR" /\ pump.currentServoState # "SERVO_MOVING")
        => pump.currentServoState = "SERVO_IDLE"

\* C6: once a state's update() has requested Error, the current state is
\* Error after the next StateMachine::update, whatever button events, remote
\* commands or display-timer callbacks were delivered in between.
C6_ErrorRequestWins ==
    [][(pc = "sm" /\ hist.errorDue) => sm'.currentState.name = "ERROR"]_vars

\* C7: in Filling, in the pass in which the hold of the button reaches the
\* long-press threshold, handleButton latches the emergency-stop flag.
C7_LongPressLatchesStop ==
    [][(/\ pc = "handle"
        /\ sm.currentState.name = "FILLING"
        /\ button.lastStableLow
        /\ button.pressStartTime > 0
        /\ HoldTime >= LONG_PRESS_TIME
        /\ HoldTime < LONG_PRESS_TIME + PassTime)
          => sm'.currentState.emergencyStopFlag]_vars

\* C8: when the emergency-stop flag was latched during pass N, the pump
\* relay is off by the end of pass N + 1.
C8_PumpOffTickAfterFlag ==
    (pc = "begin" /\ hist.flagTick = 2) => ~isPumpOn(pump)

\* C9: after a remote stop (mode 8) accepted while Filling, the pump relay
\* is off at once and stays off until the next fill request, and the
\* StateMachine::update of the same pass makes Idle the current state.
C9_RemoteStop ==
    /\ [](hist.stopped => ~isPumpOn(pump))
    /\ [][(pc = "sm" /\ hist.stopped /\ sm.currentState.name = "FILLING")
            => sm'.currentState.name = "IDLE"]_vars

\* C9 witness: the stop has just been delivered to a running pump
C9_Witness ==
    /\ hist.cmd = CMD_STOP
    /\ hist.stopped
    /\ hist.pumpWas
    /\ sm.currentState.name = "FILLING"

\* C10: a remote command of mode 1..7 delivered while Filling, Calibrating
\* or in Error requests no transition and leaves the stored fill target and
\* the pump, power-relay and servo intents unchanged.
C10_CommandsIgnoredOutsideIdle ==
    [][(/\ hist'.cmd \in CMD_ONE_CUP .. CMD_FULL
        /\ sm.currentState.name \in {"FILLING", "CALIBRATION", "ERROR"})
          => (reqs' = << >> /\ sm' = sm /\ pump' = pump)]_vars

\* C10 witness: a fill command has been delivered during a running fill
C10_Witness ==
    /\ hist.cmd \in CMD_ONE_CUP .. CMD_FULL
    /\ sm.currentState.name = "FILLING"
    /\ isPumpOn(pump)

\* some buzzer request of the last action asks for count beeps of this kind
BeepRequested(kind, count) ==
    \E i \in 1 .. Len(beeps) : beeps[i] = << kind, count >>

\* C11: every call of handleMqttCommand that neither starts a fill nor
\* performs a stop requests a double-beep and leaves the controller as it
\* was: no rejected command returns silently.
C11_RejectedCommandBeeps ==
    [][(/\ hist'.cmd # NoCmd
        /\ ~Requested(reqs', "FILLING")
        /\ ~(hist'.cmd = CMD_STOP /\ sm.currentState.name = "FILLING"))
          => (/\ \E i \in 1 .. Len(beeps') : beeps'[i] = << "short", 2 >>
              /\ sm' = sm)]_vars

\* C12: in Idle with a ready kettle the gesture depends on the length of
\* the click run (two clicks: fill to empty weight + maximum volume, three
\* clicks: Calibrating), so the first click of a run starts no fill by
\* itself: while the inter-click window of a run of one click is still
\* open, handleButton requests no fill.
C12_FirstClickStartsNoFill ==
    [][(/\ pc = "handle"
        /\ sm.currentState.name = "IDLE"
        /\ button.clickCount = 1
        /\ Sub(now, button.lastClickTime) <= DOUBLE_CLICK_TIME)
          => ~Requested(reqs', "FILLING")]_vars

\* the fill target the description gives for a single click
C13_ExpectedTarget ==
    LET water == scale.currentWeight - scale.emptyWeight
        wanted == IF water < MIN_WATER_LEVEL
                  THEN scale.emptyWeight + MIN_WATER_LEVEL
                  ELSE scale.currentWeight + CUP_VOLUME
        cap == scale.emptyWeight + FULL_WATER_LEVEL
    IN IF wanted <= cap THEN wanted ELSE cap

\* C13: in Idle with the sensor ready and the kettle present, a single
\* click requests exactly one fill, whose target is empty weight +
\* MIN_WATER_LEVEL when the water is below MIN_WATER_LEVEL and current
\* weight + CUP_VOLUME otherwise, capped at empty weight + FULL_WATER_LEVEL.
C13_SingleClickTarget ==
    [][(/\ pc = "handle"
        /\ sm.currentState.name = "IDLE"
        /\ button.clickCount = 1
        /\ isKettlePresent(scale)
        /\ scale.factorCalibrated
        /\ events' = events)
          => (/\ Len(reqs') = 1
              /\ reqs'[1].to = "FILLING"
              /\ reqs'[1].granted
              /\ sm'.nextState.name = "FILLING"
              /\ sm'.nextState.targetWeight = C13_ExpectedTarget
              /\ sm'.fillTarget = C13_ExpectedTarget
              /\ (scale.emptyWeight = 300 /\ scale.currentWeight = 300
                    => sm'.nextState.targetWeight = 800))]_vars

\* C13 witness: a single click on the empty kettle (empty 300 g, current
\* 300 g) has requested the fill to 800 g
C13_Witness ==
    /\ pc = "wait"
    /\ sm.currentState.name = "IDLE"
    /\ Requested(reqs, "FILLING")
    /\ scale.emptyWeight = 300
    /\ scale.currentWeight = 300
    /\ sm.nextState.targetWeight = 800

\* C13: the other two cases, one more cup and the cap
C13_WitnessCup ==
    /\ pc = "wait"
    /\ sm.currentState.name = "IDLE"
    /\ Requested(reqs, "FILLING")
    /\ scale.currentWeight - scale.emptyWeight >= MIN_WATER_LEVEL
    /\ sm.nextState.targetWeight = scale.currentWeight + CUP_VOLUME

C13_WitnessCap ==
    /\ pc = "wait"
    /\ sm.currentState.name = "IDLE"
    /\ Requested(reqs, "FILLING")
    /\ scale.currentWeight + CUP_VOLUME > scale.emptyWeight + FULL_WATER_LEVEL
    /\ sm.nextState.targetWeight = scale.emptyWeight + FULL_WATER_LEVEL

\* C14: whenever the pump relay is on, the servo is at rest over the
\* kettle: neither moving nor parked idle, also for a fill started while
\* the servo is still on its way back from the previous fill.
C14_PumpOnlyOverKettle ==
    isPumpOn(pump) => pump.currentServoState = "SERVO_OVER_KETTLE"

\* C15: in an initialised fill with no stop latched and no fault detected,
\* an update that finds the filtered weight at or above target - WEIGHT_HYST
\* requests a double-beep and the transition to Idle; the update that then
\* makes that transition leaves the pump relay off.
C15_TargetReached ==
    [][/\ (/\ pc = "sm"
           /\ sm'.currentState.name = "FILLING"
           /\ sm'.currentState.fillingInit
           /\ ~sm'.currentState.emergencyStopFlag
           /\ ~Requested(reqs', "ERROR")
           /\ scale'.currentWeight
                 >= sm'.currentState.targetWeight - WEIGHT_HYST)
             => (/\ \E i \in 1 .. Len(beeps') : beeps'[i] = << "short", 2 >>
                 /\ Granted(reqs', "IDLE")
                 /\ sm'.stateTransitionPending
                 /\ sm'.nextState.name = "IDLE")
       /\ (/\ pc = "sm"
           /\ sm.currentState.name = "FILLING"
           /\ sm.stateTransitionPending
           /\ sm.nextState.name = "IDLE")
             => (sm'.currentState.name = "IDLE" /\ ~isPumpOn(pump'))]_vars

\* C15 witness: the update that left Filling for Idle after the target was
\* reached with the pump running
C15_Witness ==
    /\ pc = "handle"
    /\ sm.currentState.name = "IDLE"
    /\ HookRun("FILLING", "exit")
    /\ hist.pumpWas
    /\ ~hist.stopped
    /\ scale.currentWeight >= sm.fillTarget - WEIGHT_HYST
    /\ scale.currentWeight > scale.emptyWeight

\* time since the current fill started
FillElapsed == Sub(now, sm.currentState.startTime)

\* C16: a fill whose filtered weight has stayed within NO_FLOW_DELTA of
\* the start weight past the no-flow window ends in Error with kind no-flow,
\* before the absolute fill timeout: once the update of a fill has
\* requested Error(no-flow) for a kettle that is present and a weight within
\* NO_FLOW_DELTA of the start weight, the next update makes Error(no-flow)
\* the current state, and the fill has not lasted PUMP_TIMEOUT by then.
C16_NoFlowEntersError ==
    [][(/\ pc = "sm"
        /\ hist.errorDue
        /\ sm.currentState.name = "FILLING"
        /\ sm.currentState.fillingInit
        /\ sm.currentError = "ERR_NO_FLOW"
        /\ isKettlePresent(scale)
        /\ Abs(scale.currentWeight - sm.currentState.startWeight)
              < NO_FLOW_DELTA)
          => (/\ sm'.currentState.name = "ERROR"
              /\ sm'.currentState.error = "ERR_NO_FLOW"
              /\ Long(FillElapsed) < Long(PUMP_TIMEOUT))]_vars

\* the no-flow check does fire on a frozen weight: a fill whose weight is
\* within NO_FLOW_DELTA of the start weight is never found still running,
\* with no Error requested, three passes after NO_FLOW_TIMEOUT +
\* STABLE_TIME_THRESHOLD
C16_NoFlowDetected ==
    (/\ pc = "handle"
     /\ sm.currentState.name = "FILLING"
     /\ sm.currentState.fillingInit
     /\ ~sm.currentState.emergencyStopFlag
     /\ ~sm.stateTransitionPending
     /\ load = sm.currentState.startWeight
     /\ scale.readings = [i \in 1 .. STABLE_READINGS |-> load])
        => Long(FillElapsed)
              <= NO_FLOW_TIMEOUT + STABLE_TIME_THRESHOLD + 3 * PassTime

\* In the step of stateMachine->update(): scale.isReady() holds and
\* scale.update() succeeds (a sensor that does not answer uses up an event)
SensorReady == scale.factorCalibrated /\ events' = events

\* the update of this pass runs in Filling, on a fill that was initialised
\* and has no stop latched
FillUpdateDue ==
    /\ pc = "sm"
    /\ sm.currentState.name = "FILLING"
    /\ UpdatingState = "FILLING"
    /\ sm.currentState.fillingInit
    /\ ~sm.currentState.emergencyStopFlag

FillTimeoutRequested ==
    /\ Granted(reqs', "ERROR")
    /\ sm'.stateTransitionPending
    /\ sm'.nextState.name = "ERROR"
    /\ sm'.nextState.error = "ERR_FILL_TIMEOUT"
    /\ sm'.currentError = "ERR_FILL_TIMEOUT"

\* C17: in Filling with the kettle present, no stop latched and the weight
\* sensor answering, an update that finds more than PUMP_TIMEOUT elapsed
\* since the fill started requests Error with kind fill-timeout, also when
\* millis() has wrapped around since the fill started.
C17_FillTimeout ==
    [][(/\ FillUpdateDue
        /\ SensorReady
        /\ isKettlePresent(scale')
        /\ Long(FillElapsed) > Long(PUMP_TIMEOUT))
          => FillTimeoutRequested]_vars

\* C17 as stated, whether or not the weight sensor answers in that update
C17_FillTimeoutAnySensor ==
    [][(/\ FillUpdateDue
        /\ isKettlePresent(scale')
        /\ Long(FillElapsed) > Long(PUMP_TIMEOUT))
          => FillTimeoutRequested]_vars

\* C17 witness: Error(fill-timeout) has just been requested for a fill that
\* started before millis() wrapped around
C17_Witness ==
    /\ pc = "handle"
    /\ sm.currentState.name = "FILLING"
    /\ sm.currentState.startTime > now
    /\ isKettlePresent(scale)
    /\ Granted(reqs, "ERROR")
    /\ sm.nextState.name = "ERROR"
    /\ sm.nextState.error = "ERR_FILL_TIMEOUT"

\* this step's update enters Filling and finds the kettle absent
EntersFillingWithoutKettle ==
    /\ pc = "sm"
    /\ UpdatingState = "FILLING"
    /\ sm.currentState.name # "FILLING"
    /\ ~isKettlePresent(scale)

\* a visit to Filling that found the kettle absent on entry
InFillingWithoutKettle ==
    /\ sm.currentState.name = "FILLING"
    /\ ~sm.currentState.fillingInit

\* the step neither switches the pump on nor sends the servo to the kettle
NoActuatorEngaged ==
    /\ ~isPumpOn(pump')
    /\ pump'.targetServoState = "SERVO_OVER_KETTLE"
          => /\ pump.targetServoState = "SERVO_OVER_KETTLE"
             /\ pump'.servoMoveStartTime = pump.servoMoveStartTime

C19_IdleSensorFault ==
    [][(/\ pc = "sm"
        /\ UpdatingState = "IDLE"
        /\ ~SensorReady)
          => (/\ Granted(reqs', "ERROR")
              /\ sm'.stateTransitionPending
              /\ sm'.nextState.name = "ERROR"
              /\ sm'.nextState.error = "ERR_HX711_TIMEOUT"
              /\ sm'.currentError = "ERR_HX711_TIMEOUT"
              /\ pump'.powerRelayState = pump.powerRelayState
              /\ pump'.lastPowerRelayToggleTime = pump.lastPowerRelayToggleTime
              /\ sm'.currentState.name = "IDLE"
              /\ ~sm.stateTransitionPending
                    => sm'.currentState.lastPowerCheckTime
                          = sm.currentState.lastPowerCheckTime)]_vars

\* C19 witness: in Idle the sensor has just failed on a tick at which the
\* power check was due and would have switched the kettle power on
C19_Witness ==
    /\ pc = "handle"
    /\ sm.currentState.name = "IDLE"
    /\ Granted(reqs, "ERROR")
    /\ sm.nextState.name = "ERROR"
    /\ sm.nextState.error = "ERR_HX711_TIMEOUT"
    /\ Long(Sub(now, sm.currentState.lastPowerCheckTime)) > POWER_CHECK_PERIOD
    /\ isKettlePresent(scale)
    /\ scale.currentWeight - scale.emptyWeight >= MIN_WATER_LEVEL
    /\ ~pump.powerRelayState

\* the handleButton of this step finds the button pressed, not yet handled,
\* in step 2 of the calibration, with a candidate weight outside the
\* plausible range
ImplausiblePlacement ==
    /\ pc = "handle"
    /\ sm.currentState.name = "CALIBRATION"
    /\ sm.currentState.step = "CALIB_WAIT_PLACE"
    /\ isPressed(button)
    /\ ~sm.currentState.pressedHandled
    /\ ~(scale.currentWeight > CALIB_MIN /\ scale.currentWeight < CALIB_MAX)

\* C20: in step 2 of the calibration a confirmed press with a candidate
\* weight outside the plausible range leaves emptyWeight, the calibration
\* flag and the EEPROM record unchanged, keeps step 2 and the Calibrating
\* state, requests no transition, and requests exactly one long beep.
C20_ImplausibleWeightRejected ==
    [][ImplausiblePlacement
          => (/\ scale' = scale
              /\ eeprom' = eeprom
              /\ sm'.currentState.name = "CALIBRATION"
              /\ sm'.currentState.step = "CALIB_WAIT_PLACE"
              /\ reqs' = << >>
              /\ sm'.nextState = sm.nextState
              /\ sm'.stateTransitionPending = sm.stateTransitionPending
              /\ beeps' = << << "long", 1 >> >>)]_vars

\* C20 witness: the second press of a calibration has just been refused
\* with nothing on the platform
C20_Witness ==
    /\ pc = "wait"
    /\ sm.currentState.name = "CALIBRATION"
    /\ sm.currentState.step = "CALIB_WAIT_PLACE"
    /\ sm.currentState.pressedHandled
    /\ BeepRequested("long", 1)
    /\ display.waitState = "WAIT_CALIB_ERROR"
    /\ display.waitStartTime = now
    /\ scale.currentWeight <= CALIB_MIN
    /\ scale.isCalibrated
    /\ scale.emptyWeight = eeprom.emptyWeight

C21_StoredThenIdle ==
    /\ pc = "handle"
    /\ sm.currentState.name = "IDLE"
    /\ HookRun("CALIBRATION", "exit")
    /\ scale.emptyWeight = 300
    /\ eeprom.emptyWeight = 300
    /\ ~display.calibrationSuccess

\* a tick confirms the press / the release of the button
PressConfirmed == ~button.lastStableLow /\ button'.lastStableLow

ReleaseConfirmed == button.lastStableLow /\ ~button'.lastStableLow

\* the duration of the press that a tick ends, as the tick measures it
HeldFor == Sub(now', button.pressStartTime)

ButtonEvent ==
    \/ button'.lastStableLow # button.lastStableLow
    \/ button'.pressStartTime # button.pressStartTime
    \/ button'.holdActive # button.holdActive
    \/ button'.clickCount > button.clickCount

\* C23: the stable state changes, and a press, release or click is recorded,
\* only by a tick that has read the same raw level ever since a change polled
\* more than DEBOUNCE_TIME earlier; the stable state then takes that raw
\* level, and it is taken exactly once: the third tick after the window that
\* reads the settled level makes the transition, and no transition is left
\* pending or repeated.
C23_Debounce ==
    /\ [][ButtonEvent =>
             /\ Sub(now', button'.lastDebounceTime) > DEBOUNCE_TIME
             /\ button'.lastRawLow = button.lastRawLow
             /\ button'.lastStableLow = button'.lastRawLow
             /\ button.lastStableLow # button'.lastStableLow]_vars
    /\ [][(/\ now' # now \/ button'.stableConfirmCount # button.stableConfirmCount
           /\ button'.lastRawLow = button.lastRawLow
           /\ button.lastRawLow # button.lastStableLow
           /\ Sub(now', button.lastDebounceTime) > DEBOUNCE_TIME
           /\ button.stableConfirmCount = HYSTERESIS_COUNT - 1)
             => button'.lastStableLow = button.lastRawLow]_vars
    /\ [](button.lastRawLow # button.lastStableLow
             => button.stableConfirmCount < HYSTERESIS_COUNT)

\* the raw level went LOW, HIGH and LOW again at the first tick, then
\* settled: the press is confirmed once, DEBOUNCE_TIME after the bounce
C23_Witness ==
    /\ button.lastStableLow
    /\ button.pressStartTime = now
    /\ events = ButtonEvents - 3
    /\ Sub(now, ButtonBoot) < 2 * (DEBOUNCE_TIME + 10)
    /\ button.lastDebounceTime = ButtonBoot

\* C24: a tick never clears the click counter: the count of a click run that
\* the inter-click timeout has ended stays observable through
\* isSingleClick(), isDoubleClick() and isTripleClick() until resetClicks().
C24_CountKeptUntilReset ==
    [][(now' # now /\ button.clickCount > 0)
          => /\ button'.clickCount >= button.clickCount
             /\ isSingleClick(button) => isSingleClick(button')
                                         \/ button'.clickCount > 1]_vars

\* the number of reports of gesture g since the last confirmed press
Reports(g) == Cardinality({i \in 1 .. Len(reqs) : reqs[i] = g})

\* the last call reported gesture g
Reported(g) == Len(reqs') = Len(reqs) + 1 /\ reqs'[Len(reqs')] = g

\* C25: within one debounced press isLongPress() is true at most once and
\* isVeryLongPress() at most once, however often they are polled;
\* isLongPress() is true only while the hold time is in
\* [LONG_PRESS_TIME, VERY_LONG_PRESS_TIME); and the release of a press held
\* for LONG_PRESS_TIME or longer does not increment the click counter.
C25_LongPressOnce ==
    /\ [](Reports("long") <= 1 /\ Reports("verylong") <= 1)
    /\ [][Reported("long") =>
             /\ button.lastStableLow
             /\ Sub(now, button.pressStartTime) >= LONG_PRESS_TIME
             /\ Sub(now, button.pressStartTime) < VERY_LONG_PRESS_TIME]_vars
    /\ [][(ReleaseConfirmed /\ HeldFor >= LONG_PRESS_TIME)
             => button'.clickCount <= button.clickCount]_vars

\* a press was reported as long and as very long, once each, and then
\* released without a click
C25_Witness ==
    /\ reqs = << "long", "verylong" >>
    /\ ~button.lastStableLow
    /\ button.pressStartTime = 0
    /\ button.clickCount = 0
    /\ button.lastClickTime = 0
    /\ events = ButtonEvents - 2

\* C30: the classification of a press does not depend on the value of the
\* tick counter at which it was confirmed, 0 and the values around the wrap
\* included: its release counts a click when it was held for more than
\* 2 * DEBOUNCE_TIME and less than LONG_PRESS_TIME, and isLongPress() is
\* true when it is polled, not yet reported, at a hold time in
\* [LONG_PRESS_TIME, VERY_LONG_PRESS_TIME).
C30_AnyTickValue ==
    /\ [][(/\ ReleaseConfirmed
           /\ HeldFor > 2 * DEBOUNCE_TIME
           /\ HeldFor < LONG_PRESS_TIME)
             => button'.clickCount = button.clickCount + 1]_vars
    /\ []((/\ button.lastStableLow
           /\ ~button.isLongPressReported
           /\ Sub(now, button.pressStartTime) >= LONG_PRESS_TIME
           /\ Sub(now, button.pressStartTime) < VERY_LONG_PRESS_TIME)
             => isLongPress(button, now))

\* a press confirmed before the wrap and released after it counts a click
C30_AcrossWrap ==
    /\ button.clickCount = 1
    /\ button.lastClickTime = now
    /\ now < TickHalf
    /\ button.lastDebounceTime < TickHalf
    /\ events = ButtonEvents - 2

\* the samples of the last STABLE_READINGS calls of update()
LastSamples == [i \in 1 .. Len(reqs) |-> reqs[i].v]

\* the middle one of STABLE_READINGS values in order of size
MiddleValue(f) ==
    CHOOSE m \in {f[i] : i \in 1 .. STABLE_READINGS} :
        /\ 2 * Cardinality({i \in 1 .. STABLE_READINGS : f[i] <= m})
              > STABLE_READINGS
        /\ 2 * Cardinality({i \in 1 .. STABLE_READINGS : f[i] >= m})
              > STABLE_READINGS

\* C26 as stated: after five consecutive calls of update() with the sensor
\* available the weight is the median of the five converted, clamped samples.
C26_MedianOfLastFive ==
    Len(reqs) = STABLE_READINGS
        => scale.currentWeight = MiddleValue(LastSamples)

\* C26: after five consecutive calls of update() with the sensor available,
\* none of whose samples was rejected as a jump, the weight is the median of
\* the five converted, clamped samples.
C26_MedianOfStoredFive ==
    (/\ Len(reqs) = STABLE_READINGS
     /\ \A i \in 1 .. Len(reqs) : reqs[i].stored)
        => scale.currentWeight = MiddleValue(LastSamples)

\* five samples were stored, their median differs from their mean, and one
\* of them was clamped
C26_Witness ==
    /\ Len(reqs) = STABLE_READINGS
    /\ \A i \in 1 .. Len(reqs) : reqs[i].stored
    /\ scale.currentWeight = 300
    /\ Mean(LastSamples) # 300
    /\ \E i \in 1 .. Len(reqs) : reqs[i].v = 0
    /\ \E i \in 1 .. Len(reqs) : reqs[i].v = 400

\* the last call of update() read a sample that differs from the filtered
\* weight by more than MAX_WEIGHT_JUMP
JumpRead ==
    /\ reqs' # << >>
    /\ now' # now
    /\ Abs(reqs'[Len(reqs')].v - scale.currentWeight) > MAX_WEIGHT_JUMP

\* C27 as stated: a sample that differs from the filtered weight by more
\* than MAX_WEIGHT_JUMP leaves the filtered weight as it was, also when the
\* filtered weight is 0.
C27_JumpIgnored ==
    [][JumpRead => scale'.currentWeight = scale.currentWeight]_vars

\* C27: a sample that differs from a filtered weight above 0 by more than
\* MAX_WEIGHT_JUMP leaves the buffer and the filtered weight as they were;
\* when the filtered weight is 0 the sample is stored in the buffer.
C27_JumpIgnoredAboveZero ==
    [][JumpRead =>
          IF scale.currentWeight > 0
          THEN scale' = scale /\ ~reqs'[Len(reqs')].stored
          ELSE /\ reqs'[Len(reqs')].stored
               /\ scale'.readings[scale.readIndex + 1] = reqs'[Len(reqs')].v]_vars

\* a sample of 1000 g has just been rejected at a filtered weight of 300 g
C27_Witness ==
    /\ reqs # << >>
    /\ ~reqs[Len(reqs)].stored
    /\ reqs[Len(reqs)].v = 1000
    /\ scale.currentWeight = 300

\* ------------------------------------------------------------------------
\* The calibration record (StoreSpec)
\* ------------------------------------------------------------------------
\* the call before the last one, and the one before that
SavedBy(a) ==
    IF Len(reqs) >= 2 /\ reqs[Len(reqs)].op = "load"
       /\ reqs[Len(reqs)].addr = a
    THEN IF reqs[Len(reqs) - 1].op = "save" /\ reqs[Len(reqs) - 1].addr = a
         THEN {reqs[Len(reqs) - 1]}
         ELSE IF Len(reqs) = StoreLog /\ reqs[2].op = "restart"
                 /\ reqs[1].op = "save" /\ reqs[1].addr = a
         THEN {reqs[1]}
         ELSE {}
    ELSE {}

\* C28: a load from a slot that save and load accept, directly after a save
\* to the same slot or after that save and a restart of the device, leaves
\* emptyWeight and calibrationFactor with the values that were saved.
C28_RoundTrip ==
    \A a \in StoreSlots : \A saved \in SavedBy(a) :
        /\ scale.emptyWeight = saved.emptyWeight
        /\ scale.calibrationFactor = saved.calibrationFactor

\* the same for the slots whose record lies within the store
C28_RoundTripWithinStore ==
    \A a \in StoreSlots : \A saved \in SavedBy(a) :
        FactorFlagFits(a) =>
            /\ scale.emptyWeight = saved.emptyWeight
            /\ scale.calibrationFactor = saved.calibrationFactor

\* a calibrated record has been saved at address 0 and loaded after a restart
C28_Restored ==
    /\ SavedBy(0) # {}
    /\ reqs[2].op = "restart"
    /\ scale.emptyWeight = 300
    /\ scale.calibrationFactor = 500

\* C29: whenever factorCalibrated is unset calibrationFactor is
\* DEFAULT_FACTOR, and whenever isCalibrated is unset emptyWeight is 0.
C29_DefaultsWhenUnset ==
    /\ ~scale.factorCalibrated => scale.calibrationFactor = DEFAULT_FACTOR
    /\ ~scale.isCalibrated => scale.emptyWeight = 0

\* the second half of the same, which setCalibrationFactor cannot break
C29_WeightZeroWhenUnset ==
    ~scale.isCalibrated => scale.emptyWeight = 0

\* ------------------------------------------------------------------------
\* The relays and the servo (PumpSpec)
\* ------------------------------------------------------------------------
PowerRequest ==
    reqs'[1].op \in {"powerOn", "powerOff", "setPowerRelayOn",
                     "setPowerRelayOff"}

RelayUnchanged ==
    /\ pump'.powerRelayState = pump.powerRelayState
    /\ pump'.lastPowerRelayToggleTime = pump.lastPowerRelayToggleTime

\* C31: the power relay changes state only when POWER_RELAY_COOLDOWN or
\* more has passed since its previous change; a powerOn, powerOff or
\* setPowerRelay call made earlier than that leaves the relay state and
\* lastPowerRelayToggleTime as they were, and so does a setPowerRelay call
\* for the state the relay has.
C31_RelayCooldown ==
    [][/\ pump'.powerRelayState # pump.powerRelayState
          => \/ LastChange = NoChange
             \/ Sub(now', LastChange) >= POWER_RELAY_COOLDOWN
       /\ (PowerRequest /\ LastChange # NoChange
           /\ Sub(now, LastChange) < POWER_RELAY_COOLDOWN)
          => RelayUnchanged
       /\ (reqs'[1].op = "setPowerRelayOn" /\ pump.powerRelayState)
          => RelayUnchanged
       /\ (reqs'[1].op = "setPowerRelayOff" /\ ~pump.powerRelayState)
          => RelayUnchanged]_vars

\* a powerOff call has been refused 500 ms after the relay was switched on
C31_Witness ==
    /\ reqs # << >>
    /\ reqs[1].op = "powerOff"
    /\ reqs[1].changedAt # NoChange
    /\ Sub(now, reqs[1].changedAt) = 500
    /\ pump.powerRelayState
    /\ pump.lastPowerRelayToggleTime = reqs[1].changedAt

MoveRequest == reqs'[1].op \in {"moveServoToKettle", "moveServoToIdle"}

MoveTarget ==
    IF reqs'[1].op = "moveServoToKettle" THEN "SERVO_OVER_KETTLE"
    ELSE "SERVO_IDLE"

\* C33: a move request made while the servo is moving changes neither
\* targetServoState, currentServoState nor servoMoveStartTime; a move request
\* made while it is at rest stores the target and sets the state to moving;
\* update() sets the state to the target at the first poll at which
\* SERVO_MOVE_TIME has passed since the start and at no earlier poll;
\* isServoInPosition() holds exactly when the state is not moving.
C33_ServoSequencer ==
    [][/\ (MoveRequest /\ pump.currentServoState = "SERVO_MOVING")
          => /\ pump'.targetServoState = pump.targetServoState
             /\ pump'.currentServoState = pump.currentServoState
             /\ pump'.servoMoveStartTime = pump.servoMoveStartTime
       /\ (MoveRequest /\ pump.currentServoState # "SERVO_MOVING")
          => /\ pump'.targetServoState = MoveTarget
             /\ pump'.currentServoState = "SERVO_MOVING"
             /\ pump'.servoMoveStartTime = now
       /\ (reqs'[1].op = "update" /\ pump.currentServoState = "SERVO_MOVING")
          => pump'.currentServoState =
                 IF Sub(now', pump.servoMoveStartTime) >= SERVO_MOVE_TIME
                 THEN pump.targetServoState ELSE "SERVO_MOVING"
       /\ (~MoveRequest /\ pump.currentServoState # "SERVO_MOVING")
          => pump'.currentServoState = pump.currentServoState
       /\ isServoInPosition(pump')
              = (pump'.currentServoState
                     \in {"SERVO_IDLE", "SERVO_OVER_KETTLE"})]_vars

\* moveServoToIdle() has been called 500 ms after the servo set out for the
\* kettle, and the servo is still moving there
C33_Witness ==
    /\ reqs # << >>
    /\ reqs[1].op = "moveServoToIdle"
    /\ pump.currentServoState = "SERVO_MOVING"
    /\ pump.targetServoState = "SERVO_OVER_KETTLE"
    /\ Sub(now, pump.servoMoveStartTime) = 500

\* ------------------------------------------------------------------------
\* The kettle-power decision of Idle (PowerSpec)
\* ------------------------------------------------------------------------
\* stateMachine->update() of this step runs IdleState::update with the
\* sensor ready
IdleUpdateRuns == pc = "sm" /\ UpdatingState = "IDLE" /\ SensorReady

\* lastPowerCheckTime of the Idle state whose update() runs in this step
IdleTimer ==
    IF sm.stateTransitionPending /\ sm.nextState # NullState
    THEN sm.nextState.lastPowerCheckTime
    ELSE sm.currentState.lastPowerCheckTime

PowerCheckDue == Long(Sub(now, IdleTimer)) > POWER_CHECK_PERIOD

\* the request the decision makes for the weight this update has filtered
KettlePowerRequest ==
    LET volume == scale'.currentWeight - scale'.emptyWeight
    IN IF scale'.currentWeight >= scale'.emptyWeight - WEIGHT_HYST
       THEN IF volume >= MIN_WATER_LEVEL /\ ~pump'.pumpRelayState THEN "on"
            ELSE IF volume < MIN_WATER_LEVEL - WEIGHT_HYST THEN "off"
            ELSE "none"
       ELSE "off"

\* the power relay after the request
PowerRelayAfter ==
    IF KettlePowerRequest = "on" THEN setPowerRelay(pump, TRUE, now)
    ELSE IF KettlePowerRequest = "off" THEN setPowerRelay(pump, FALSE, now)
    ELSE pump

PowerDecisionMade ==
    /\ sm'.currentState.lastPowerCheckTime = now
    /\ pump'.powerRelayState = PowerRelayAfter.powerRelayState
    /\ pump'.lastPowerRelayToggleTime = PowerRelayAfter.lastPowerRelayToggleTime

C35_BurstOfN ==
    /\ [](/\ BuzzerLog.pulses <= BuzzerLog.count
          /\ pump.buzzerState = "BUZZER_IDLE" =>
                 /\ ~pump.buzzerOutputHigh
                 /\ BuzzerLog.pulses = BuzzerLog.count)
    /\ [][/\ (~pump.buzzerOutputHigh /\ pump'.buzzerOutputHigh
              /\ reqs'[1].op = "update")
                => Sub(now', pump.buzzerStepStartTime) >= 2 * BUZZER_FEEDBACK
          /\ (reqs'[1].op = "update" /\ pump.buzzerState # "BUZZER_IDLE"
              /\ Sub(now', pump.buzzerStepStartTime) >= 3 * BUZZER_FEEDBACK)
                => pump' # pump]_vars

\* a call for 2 pulses has replaced a sequence that was being played, and
\* the sequencer has come to rest after 2 more pulses
C35_Witness ==
    /\ reqs # << >>
    /\ reqs[1].op = "update"
    /\ reqs[1].replaced
    /\ reqs[1].count = 2
    /\ reqs[1].pulses = 2
    /\ pump.buzzerState = "BUZZER_IDLE"
    /\ ~pump.buzzerOutputHigh

\* C34: while the controller is in Error and loop() keeps running, the
\* buzzer plays three long pulses and one short pulse once in every
\* ERROR_LOOP_PERIOD and its output is low between the pulses and between
\* the repetitions: a pulse ends at the first pass at which it has lasted
\* 3 * BUZZER_FEEDBACK, and the output is low whenever the sequencer waits
\* for the next repetition.
C34_AlertPattern ==
    /\ [](pump.buzzerState = "BUZZER_ERROR_LOOP" => ~pump.buzzerOutputHigh)
    /\ [][(pump.buzzerOutputHigh
           /\ Sub(now', BuzzerLog.riseAt) >= 3 * BUZZER_FEEDBACK)
             => ~pump'.buzzerOutputHigh]_vars

\* the second half of C34 alone
C34_PulsesEnd ==
    [][(pump.buzzerOutputHigh
        /\ Sub(now', BuzzerLog.riseAt) >= 3 * BUZZER_FEEDBACK)
          => ~pump'.buzzerOutputHigh]_vars

\* in Error the output has been high for a whole ERROR_LOOP_PERIOD
C34_ContinuousTone ==
    /\ pump.buzzerOutputHigh
    /\ pump.buzzerState = "BUZZER_ERROR_LOOP"
    /\ Sub(now, BuzzerLog.riseAt) >= ERROR_LOOP_PERIOD

\* ------------------------------------------------------------------------
\* Resets and validity flags of the calibration record (StoreSpec)
\* ------------------------------------------------------------------------
LastCall == reqs[Len(reqs)]

\* the reset call that a load from address a directly follows, with or
\* without a restart of the device in between
ResetBefore(a) ==
    IF Len(reqs) >= 2 /\ LastCall.op = "load" /\ LastCall.addr = a
    THEN IF reqs[Len(reqs) - 1].op \in {"resetFactor", "resetCalibration"}
            /\ reqs[Len(reqs) - 1].addr = a
         THEN {reqs[Len(reqs) - 1]}
         ELSE IF Len(reqs) = StoreLog /\ reqs[2].op = "restart"
                 /\ reqs[1].op \in {"resetFactor", "resetCalibration"}
                 /\ reqs[1].addr = a
         THEN {reqs[1]}
         ELSE {}
    ELSE {}

FactorIsDefault ==
    ~scale.factorCalibrated /\ scale.calibrationFactor = DEFAULT_FACTOR

WeightIsDefault == ~scale.isCalibrated /\ scale.emptyWeight = 0

\* C36: after resetFactor() the factor is DEFAULT_FACTOR with
\* factorCalibrated unset; after resetCalibration() emptyWeight is 0 as well
\* and both flags are unset; a load from the address the object uses, made
\* directly after the reset or after the reset and a restart, gives the same.
C36_ResetAndLoad ==
    /\ (reqs # << >> /\ LastCall.op = "resetFactor") => FactorIsDefault
    /\ (reqs # << >> /\ LastCall.op = "resetCalibration")
          => FactorIsDefault /\ WeightIsDefault
    /\ \A a \in StoreSlots : \A reset \in ResetBefore(a) :
          /\ FactorIsDefault
          /\ reset.op = "resetCalibration" => WeightIsDefault

\* the part of C36 about the object and about resetCalibration()
C36_ResetInMemory ==
    /\ (reqs # << >> /\ LastCall.op = "resetFactor") => FactorIsDefault
    /\ (reqs # << >> /\ LastCall.op = "resetCalibration")
          => FactorIsDefault /\ WeightIsDefault
    /\ \A a \in StoreSlots : \A reset \in ResetBefore(a) :
          reset.op = "resetCalibration"
              => FactorIsDefault /\ WeightIsDefault

\* a record with a calibrated factor was in use, resetFactor() has been
\* called, and the load that follows has brought the calibrated factor back
C36_FactorComesBack ==
    /\ ResetBefore(0) # {}
    /\ \A reset \in ResetBefore(0) : reset.op = "resetFactor"
    /\ scale.factorCalibrated
    /\ scale.calibrationFactor # DEFAULT_FACTOR

\* C37: a load from an address directly after a save to it, or after the
\* save and a restart, gives both validity flags the values they had when
\* the record was saved; a record saved with the factor calibrated and
\* the empty weight not is loaded with isCalibrated unset.
C37_FlagsKept ==
    \A a \in StoreSlots : \A saved \in SavedBy(a) :
        FactorFlagFits(a) =>
            /\ scale.factorCalibrated = saved.factorCalibrated
            /\ scale.isCalibrated = saved.isCalibrated

\* the same for factorCalibrated alone
C37_FactorFlagKept ==
    \A a \in StoreSlots : \A saved \in SavedBy(a) :
        FactorFlagFits(a) =>
            scale.factorCalibrated = saved.factorCalibrated

\* only the factor was calibrated when the record was saved at address 0,
\* and after a restart the load reports the empty weight as calibrated
C37_StartsAsCalibrated ==
    /\ SavedBy(0) # {}
    /\ reqs[2].op = "restart"
    /\ \A saved \in SavedBy(0) :
          saved.factorCalibrated /\ ~saved.isCalibrated
    /\ scale.isCalibrated
    /\ scale.factorCalibrated
    /\ scale.emptyWeight = 0

\* ------------------------------------------------------------------------
\* The filter under a sustained change of load (FilterSpec)
\* ------------------------------------------------------------------------
\* the last STABLE_READINGS calls of update() all read the sample v
SustainedAt(v) ==
    /\ Len(reqs) = STABLE_READINGS
    /\ \A i \in 1 .. Len(reqs) : reqs[i].v = v

\* C39: after STABLE_READINGS consecutive calls of update() with the sensor
\* available that all read one converted sample v >= 0, the filtered weight
\* is v, whatever the filtered weight was before.
C39_FollowsSustainedChange ==
    \A v \in {s \in FilterSamples : s >= 0} :
        SustainedAt(v) => scale.currentWeight = v

\* the filter follows a sustained sample whenever the calls stored it
C39_FollowsWhenStored ==
    \A v \in {s \in FilterSamples : s >= 0} :
        (SustainedAt(v) /\ \A i \in 1 .. Len(reqs) : reqs[i].stored)
            => scale.currentWeight = v

\* five samples of 1000 g in a row were all rejected and the filtered weight
\* is still 300 g
C39_StuckAtOldWeight ==
    /\ SustainedAt(1000)
    /\ \A i \in 1 .. Len(reqs) : ~reqs[i].stored
    /\ scale.currentWeight = 300

\* ------------------------------------------------------------------------
\* The servo after a fill has ended in Idle (Spec)
\* ------------------------------------------------------------------------
\* C40: once the controller is in Idle the servo comes to rest only in its
\* idle position, also when Filling was left for Idle with the servo on its
\* way to the kettle.
C40_ServoParkedInIdle ==
    (sm.currentState.name = "IDLE" /\ pump.currentServoState # "SERVO_MOVING")
        => pump.currentServoState = "SERVO_IDLE"

\* a servo at rest over the kettle is not moved for as long as the
\* controller stays in Idle
C40_StaysOverKettle ==
    [][(/\ sm.currentState.name = "IDLE"
        /\ sm'.currentState.name = "IDLE"
        /\ pump.currentServoState = "SERVO_OVER_KETTLE")
          => pump'.currentServoState = "SERVO_OVER_KETTLE"]_vars

\* a remote stop has ended a fill, the controller is in Idle with no
\* transition pending, and the servo is at rest over the kettle
C40_OverKettleInIdle ==
    /\ sm.currentState.name = "IDLE"
    /\ ~sm.stateTransitionPending
    /\ hist.stopped
    /\ pump.currentServoState = "SERVO_OVER_KETTLE"
    /\ pump.targetServoState = "SERVO_OVER_KETTLE"
    /\ ~isPumpOn(pump)

\* ------------------------------------------------------------------------
\* Every fill ends (TimeoutSpec)
\* ------------------------------------------------------------------------
\* the longest a fill can be found running: the update of the first pass
\* after PUMP_TIMEOUT requests Error, the update of the next pass leaves
FillLimit == PUMP_TIMEOUT + 2 * PassTime

\* a fill that was initialised has not run for longer than FillLimit; one
\* that found no kettle at entry has its way out pending
FillBounded ==
    sm.currentState.name = "FILLING"
        => IF sm.currentState.fillingInit
           THEN Long(FillElapsed) <= FillLimit
           ELSE /\ sm.stateTransitionPending
                /\ sm.nextState.name \in {"IDLE", "ERROR"}

\* a step that leaves Filling enters Idle or Error with the pump off
FillLeft ==
    (sm.currentState.name = "FILLING" /\ sm'.currentState.name # "FILLING")
        => /\ sm'.currentState.name \in {"IDLE", "ERROR"}
           /\ ~isPumpOn(pump')

\* C38: every fill ends. While loop() keeps running, a fill is left for
\* Idle or Error no later than two passes after PUMP_TIMEOUT has elapsed
\* since it started, and the pump is off from the step that leaves Filling,
\* whatever the weight readings, the servo, the button and the remote
\* commands do.
C38_FillTerminates ==
    /\ []FillBounded
    /\ [][FillLeft]_vars

\* C38 witness: a fill that ran with the pump on until PUMP_TIMEOUT has just
\* been left for Error, and the pump is off
C38_Witness ==
    /\ pc = "handle"
    /\ sm.currentState.name = "ERROR"
    /\ sm.currentError = "ERR_FILL_TIMEOUT"
    /\ HookRun("FILLING", "exit")
    /\ hist.pumpWas
    /\ ~isPumpOn(pump)

====
